---------------------------- MODULE Spec2Model ----------------------------
(***************************************************************************)
(* A model of the Vulcan emulator core (rust-vulcan): the 24-bit Word,     *)
(* Memory and its PeekPoke extension, the CPU's stacks, fetch and execute, *)
(* the Bus composition and the display rasterizer.                         *)
(*                                                                         *)
(* Memory is a 131,072-byte array.  It is held sparsely: a function from   *)
(* the offsets whose byte is non-zero to that byte, every other offset     *)
(* reading 0.  An index outside the array panics, as Rust's bounds check   *)
(* does; a record field `panic` remembers that the call did not return.    *)
(***************************************************************************)
EXTENDS Integers, Sequences, FiniteSets, TLC

\* ------------------------------------------------------------------------
\* Program constants
\* ------------------------------------------------------------------------

\* word.rs:2   pub const MEM_SIZE: u32 = 128 * 1024
MEM_SIZE == 131072

\* word.rs:39  Self(a & 0xffffff): a Word is a value modulo 2^24
WORD_MOD == 16777216

\* word.rs:56  bit 23, the sign bit of a Word
SIGN_BIT == 8388608

\* ------------------------------------------------------------------------
\* word.rs: conversions.  A Word holds a u32 whose upper 8 bits are zero.
\* Host integers are 32 bits wide and wrap modulo 2^32; every path back to
\* a Word masks with 0xffffff, and 2^24 divides 2^32, so the wrap followed
\* by the mask is the reduction modulo 2^24 of the unwrapped value.
\* ------------------------------------------------------------------------

\* impl From<u32> for Word: Self(a & 0xffffff), a the u32 before it wraps
WordFromU32(a) == a % WORD_MOD

\* impl From<Word> for u32: word.0
U32FromWord(w) == w

\* (a slip: the word read without its sign)
I32FromWord_unsigned(w) == w

\* impl From<Word> for i32: the sign-extended value
\* (word.0 ^ 0xffffff is 0xffffff - word.0 for a 24-bit value)
I32FromWord(w) ==
    IF (w \div SIGN_BIT) % 2 # 0
    THEN -(((WORD_MOD - 1) - w) + 1)
    ELSE w

\* impl From<i32> for Word: (value as u32).into(), two's complement masked
WordFromI32(v) == WordFromU32(v)

\* convert_via!(u8 => u32), From<u8> for Word
WordFromU8(b) == WordFromU32(b)

\* convert_via!(usize => u32), From<Word> for usize: u32::from(value) as usize
UsizeFromWord(w) == U32FromWord(w)

\* convert_via!(usize => u32), From<usize> for Word: (value as u32).into()
WordFromUsize(v) == WordFromU32(v)

\* impl From<bool> for Word
WordFromBool(b) == IF b THEN WordFromU32(1) ELSE WordFromU32(0)

\* Word::to_bytes: the low three little-endian bytes
to_bytes(w) == << w % 256, (w \div 256) % 256, (w \div 65536) % 256 >>

\* Word::from_bytes: u32::from_le_bytes([a, b, c, 0])
from_bytes(b) == b[1] + 256 * b[2] + 65536 * b[3]

\* ------------------------------------------------------------------------
\* word.rs: the ops! macro (Word op Word goes through u32, Word op i32
\* through i32, Word op usize through usize)
\* ------------------------------------------------------------------------

\* 2^k, the weight of bit k
Pow2(k) == 2 ^ k

\* one bit of `&`, `|` and `^`
BitOp(op, x, y) ==
    CASE op = "and" -> IF x = 1 /\ y = 1 THEN 1 ELSE 0
      [] op = "or"  -> IF x = 1 \/ y = 1 THEN 1 ELSE 0
      [] op = "xor" -> IF x # y THEN 1 ELSE 0

RECURSIVE Bitwise(_, _, _, _)
\* bit-by-bit combination of two non-negative integers over `bits` bits,
\* the low half of the bits and the high half apart
Bitwise(op, a, b, bits) ==
    IF bits = 1 THEN BitOp(op, a % 2, b % 2)
    ELSE LET h == bits \div 2
         IN  Bitwise(op, a % Pow2(h), b % Pow2(h), h)
             + Pow2(h) * Bitwise(op, a \div Pow2(h), b \div Pow2(h), bits - h)

\* the low 24 bits of a host integer in two's complement
Low24(v) == v % WORD_MOD

\* Add<Word> for Word: u32 overflowing_add, then into()
WordAdd(a, b) == WordFromU32(U32FromWord(a) + U32FromWord(b))

\* (a slip: the operands of the subtraction the other way round)
WordSub_swapped(a, b) == WordFromU32(U32FromWord(b) - U32FromWord(a))

\* Sub<Word> for Word: u32 overflowing_sub, then into()
WordSub(a, b) == WordFromU32(U32FromWord(a) - U32FromWord(b))

\* Mul<Word> for Word: u32 overflowing_mul, then into().  The low 24 bits
\* of the product, from 12-bit limbs (the full product is 48 bits wide).
WordMul(a, b) ==
    LET al == U32FromWord(a) % 4096
        ah == U32FromWord(a) \div 4096
        bl == U32FromWord(b) % 4096
        bh == U32FromWord(b) \div 4096
    IN  WordFromU32(al * bl + ((ah * bl + al * bh) % 4096) * 4096)

\* BitAnd / BitOr / BitXor <Word> for Word (bits 24..31 of both are zero)
WordAnd(a, b) == WordFromU32(Bitwise("and", U32FromWord(a), U32FromWord(b), 24))
WordOr(a, b)  == WordFromU32(Bitwise("or", U32FromWord(a), U32FromWord(b), 24))
WordXor(a, b) == WordFromU32(Bitwise("xor", U32FromWord(a), U32FromWord(b), 24))

\* Add<i32> for Word: i32::from(self).overflowing_add(rhs).0.into()
WordAddI32(w, rhs) == WordFromI32(I32FromWord(w) + rhs)

\* Sub<i32> for Word: i32::from(self).overflowing_sub(rhs).0.into()
WordSubI32(w, rhs) == WordFromI32(I32FromWord(w) - rhs)

\* Mul<i32> for Word: i32::from(self).overflowing_mul(rhs).0.into().  The
\* product wraps modulo 2^32 and the mask keeps its low 24 bits, which
\* depend on the low 24 bits of the two's-complement operands only; they
\* are multiplied in 12-bit limbs.
WordMulI32(w, rhs) ==
    LET al == Low24(I32FromWord(w)) % 4096
        ah == Low24(I32FromWord(w)) \div 4096
        bl == Low24(rhs) % 4096
        bh == Low24(rhs) \div 4096
    IN  WordFromI32(al * bl + ((ah * bl + al * bh) % 4096) * 4096)

\* a host integer kept in a signed type of the given width (i8: 8, i16:
\* 16): the `as` of a cast and the .0 of an overflowing_ operation, the low
\* bits read in two's complement
wrapping(v, bits) ==
    IF (v % Pow2(bits)) >= Pow2(bits - 1) THEN (v % Pow2(bits)) - Pow2(bits)
    ELSE v % Pow2(bits)

\* convert_via!(i8 => i32) and convert_via!(i16 => i32), From<Word> for i8
\* and for i16: <i32>::from(value) as i8, the word cut to the width
SignedFromWord(w, bits) == wrapping(I32FromWord(w), bits)

\* Add<i8> and Add<i16> for Word (ops!(i8), ops!(i16)): both sides as the
\* narrow type, overflowing_add, and into(), which is (value as i32).into()
WordAddSigned(w, rhs, bits) ==
    WordFromI32(wrapping(SignedFromWord(w, bits) + rhs, bits))

\* Sub<i8> and Sub<i16> for Word
WordSubSigned(w, rhs, bits) ==
    WordFromI32(wrapping(SignedFromWord(w, bits) - rhs, bits))

\* Mul<i8> and Mul<i16> for Word
WordMulSigned(w, rhs, bits) ==
    WordFromI32(wrapping(SignedFromWord(w, bits) * rhs, bits))

\* (a slip: the negated value returned without the mask)
WordNeg_unmasked(w) == -I32FromWord(w)

\* impl Neg for Word: Self::from(-i32::from(self))
WordNeg(w) == WordFromI32(-I32FromWord(w))

\* (a slip: the unsigned comparison made on the signed values)
WordGt_signed(a, b) == I32FromWord(a) > I32FromWord(b)

\* PartialOrd<Word> for Word, `>`: u32::from(self).partial_cmp(&u32::from(rhs))
WordGt(a, b) == U32FromWord(a) > U32FromWord(b)

\* PartialOrd<Word> for Word, `<`
WordLt(a, b) == U32FromWord(a) < U32FromWord(b)

\* Add<usize> for Word: usize overflowing_add, then into()
WordAddUsize(w, rhs) == WordFromUsize(UsizeFromWord(w) + rhs)

\* Shr<i32> for Word: i32::from(self).shr(rhs).into(), an arithmetic shift
\* (the floor of the signed value over 2^rhs), 0 <= rhs < 32
WordShrI32(w, rhs) ==
    WordFromI32((I32FromWord(w) - (I32FromWord(w) % Pow2(rhs))) \div Pow2(rhs))

\* BitOr<i32> for Word: i32::from(self).bitor(rhs).into(); the mask keeps
\* the low 24 bits, which depend on the low 24 bits of the operands only
WordOrI32(w, rhs) == WordFromI32(Bitwise("or", Low24(I32FromWord(w)), Low24(rhs), 24))

\* BitAnd<i32> for Word: i32::from(self).bitand(rhs).into()
WordAndI32(w, rhs) == WordFromI32(Bitwise("and", Low24(I32FromWord(w)), Low24(rhs), 24))

\* PartialEq<i32> for Word: i32::from(*self).eq(rhs)
WordEqI32(w, rhs) == I32FromWord(w) = rhs

\* ------------------------------------------------------------------------
\* memory.rs: Memory, PeekPoke, PeekPokeExt
\* ------------------------------------------------------------------------

\* Memory::default(): every byte zero
MemoryDefault == [o \in {} |-> 0]

\* rng.gen() into a u8, draw number i (from 0) of a source that steps: the
\* low byte of initial + i * increment (rand's mock::StepRng; Standard
\* makes a u8 of next_u32() as u8)
gen(rng, i) == (rng.initial + i * rng.increment) % 256

\* impl<R: Rng> From<R> for Memory: Memory::default(), then
\* `for i in 0..(MEM_SIZE - 1) { mem.0[i as usize] = rng.gen() }`
Memory_from(rng) ==
    [o \in { i \in 0 .. (MEM_SIZE - 1) - 1 : gen(rng, i) # 0 } |-> gen(rng, o)]

\* the byte of the array at an offset inside it
MemGet(m, o) == IF o \in DOMAIN m THEN m[o] ELSE 0

\* the array with the byte at an offset inside it replaced
MemSet(m, o, v) ==
    [x \in (IF v = 0 THEN DOMAIN m \ {o} ELSE DOMAIN m \cup {o}) |->
        IF x = o THEN v ELSE m[x]]

\* impl Index<Word> for Memory: self.0[usize::from(index)] is bounds-checked
IndexInBounds(index) == UsizeFromWord(index) < MEM_SIZE

\* PeekPoke::peek for Memory (and for CPU, which delegates to its memory).
\* c is the machine; the result is the machine (panicked or not) and the byte.
peek(c, addr) ==
    IF c.panic THEN [c |-> c, val |-> 0]
    ELSE IF IndexInBounds(addr) THEN [c |-> c, val |-> MemGet(c.memory, UsizeFromWord(addr))]
    ELSE [c |-> [c EXCEPT !.panic = TRUE], val |-> 0]

\* PeekPoke::poke for Memory (and for CPU)
poke(c, addr, val) ==
    IF c.panic THEN c
    ELSE IF IndexInBounds(addr) THEN [c EXCEPT !.memory = MemSet(@, UsizeFromWord(addr), val)]
    ELSE [c EXCEPT !.panic = TRUE]

RECURSIVE poke_slice_from(_, _, _, _)
\* the loop of poke_slice from buffer index i (0-based) on; a panic ends it
poke_slice_from(c, addr, buffer, i) ==
    IF i >= Len(buffer) \/ c.panic THEN c
    ELSE poke_slice_from(poke(c, WordAddUsize(addr, i), buffer[i + 1]), addr, buffer, i + 1)

\* PeekPoke::poke_slice
poke_slice(c, addr, buffer) == poke_slice_from(c, addr, buffer, 0)

RECURSIVE peek_slice_from(_, _, _, _, _)
\* the loop of peek_slice from buffer index i (0-based) on, acc the bytes read
peek_slice_from(c, addr, len, i, acc) ==
    IF i >= len THEN [c |-> c, val |-> acc]
    ELSE LET r == peek(c, WordAddUsize(addr, i))
         IN  peek_slice_from(r.c, addr, len, i + 1, Append(acc, r.val))

\* PeekPoke::peek_slice into a buffer of len bytes
peek_slice(c, addr, len) == peek_slice_from(c, addr, len, 0, << >>)

\* PeekPokeExt::peek8
peek8(c, addr) == peek(c, addr)

\* PeekPokeExt::poke8
poke8(c, addr, val) == poke(c, addr, val)

\* PeekPokeExt::peek24
peek24(c, addr) ==
    LET r == peek_slice(c, addr, 3)
    IN  [c |-> r.c, val |-> IF r.c.panic THEN 0 ELSE from_bytes(r.val)]

\* (a slip: the bytes of the word written high byte first)
poke24_big_endian(c, addr, val) ==
    poke_slice(c, addr, << to_bytes(val)[3], to_bytes(val)[2], to_bytes(val)[1] >>)

\* PeekPokeExt::poke24
poke24(c, addr, val) == poke_slice(c, addr, to_bytes(val))


\* ------------------------------------------------------------------------
\* word.rs: operators that can panic.  A result is [panic, val].
\* oc: the build checks arithmetic overflow (debug) or wraps (release).
\* ------------------------------------------------------------------------

\* Div<Word> for Word: u32 overflowing_div, which panics on a zero divisor
WordDiv(a, b) ==
    IF U32FromWord(b) = 0 THEN [panic |-> TRUE, val |-> 0]
    ELSE [panic |-> FALSE, val |-> WordFromU32(U32FromWord(a) \div U32FromWord(b))]

\* Rem<Word> for Word: u32 rem, which panics on a zero divisor
WordRem(a, b) ==
    IF U32FromWord(b) = 0 THEN [panic |-> TRUE, val |-> 0]
    ELSE [panic |-> FALSE, val |-> WordFromU32(U32FromWord(a) % U32FromWord(b))]

\* Shl<Word> for Word: u32 shl, then into().  A shift of 32 or more
\* overflows: a panic where overflow is checked, else the shift amount is
\* taken modulo 32.  The low 24 bits of a << s are (a mod 2^(24-s)) * 2^s.
WordShl(a, b, oc) ==
    LET s == U32FromWord(b) % 32
    IN  IF U32FromWord(b) >= 32 /\ oc THEN [panic |-> TRUE, val |-> 0]
        ELSE [panic |-> FALSE,
              val |-> IF s >= 24 THEN 0
                      ELSE WordFromU32((U32FromWord(a) % Pow2(24 - s)) * Pow2(s))]

\* Shr<Word> for Word: u32 shr, then into(); overflow as for shl
WordShr(a, b, oc) ==
    LET s == U32FromWord(b) % 32
    IN  IF U32FromWord(b) >= 32 /\ oc THEN [panic |-> TRUE, val |-> 0]
        ELSE [panic |-> FALSE,
              val |-> IF s >= 24 THEN 0 ELSE WordFromU32(U32FromWord(a) \div Pow2(s))]

\* ------------------------------------------------------------------------
\* opcodes.rs
\* ------------------------------------------------------------------------

\* enum Opcode, in the order of impl TryFrom<u8> for Opcode (0 => Nop, ...)
OpcodeTable ==
    << "Nop", "Add", "Sub", "Mul", "Div", "Mod", "Rand", "And", "Or", "Xor",
       "Not", "Gt", "Lt", "Agt", "Alt", "Lshift", "Rshift", "Arshift", "Pop",
       "Dup", "Swap", "Pick", "Rot", "Jmp", "Jmpr", "Call", "Ret", "Brz",
       "Brnz", "Hlt", "Load", "Loadw", "Store", "Storew", "Inton", "Intoff",
       "Setiv", "Sdp", "Setsdp", "Pushr", "Popr", "Peekr", "Debug" >>

\* the variants of enum Opcode
Opcodes == { OpcodeTable[i] : i \in 1..Len(OpcodeTable) }

\* (a slip: every 6-bit value decodes, the ones past the table as Debug)
try_from_total(value) ==
    IF value + 1 \in DOMAIN OpcodeTable
    THEN [ok |-> TRUE, opcode |-> OpcodeTable[value + 1]]
    ELSE [ok |-> TRUE, opcode |-> "Debug"]

\* impl TryFrom<u8> for Opcode
try_from(value) ==
    IF value + 1 \in DOMAIN OpcodeTable
    THEN [ok |-> TRUE, opcode |-> OpcodeTable[value + 1]]
    ELSE [ok |-> FALSE, err |-> value]

\* Opcode::is_binary (cpu.rs)
is_binary(opcode) ==
    opcode \notin { "Nop", "Not", "Rand", "Pop", "Dup", "Pick", "Rot", "Jmp",
                    "Jmpr", "Call", "Ret", "Hlt", "Load", "Loadw", "Inton",
                    "Intoff", "Setiv", "Sdp", "Pushr", "Popr", "Peekr", "Debug" }

\* ------------------------------------------------------------------------
\* cpu.rs: construction, reset and the stacks
\* ------------------------------------------------------------------------

\* CPU::new(memory)
CPU_new(memory) ==
    [ memory |-> memory, pc |-> WordFromI32(1024), dp |-> WordFromI32(256),
      sp |-> WordFromI32(1024), iv |-> WordFromI32(1024),
      int_enabled |-> FALSE, halted |-> TRUE, panic |-> FALSE ]

\* (a slip: reset forgets the interrupt vector)
reset_keeps_iv(c) ==
    [ c EXCEPT !.pc = WordFromI32(1024), !.dp = WordFromI32(256),
               !.sp = WordFromI32(1024), !.int_enabled = FALSE, !.halted = TRUE ]

\* (a slip: reset starts the machine)
reset_starts_running(c) ==
    [ c EXCEPT !.pc = WordFromI32(1024), !.dp = WordFromI32(256),
               !.sp = WordFromI32(1024), !.iv = WordFromI32(1024),
               !.int_enabled = FALSE, !.halted = FALSE ]

\* CPU::reset
reset(c) ==
    [ c EXCEPT !.pc = WordFromI32(1024), !.dp = WordFromI32(256),
               !.sp = WordFromI32(1024), !.iv = WordFromI32(1024),
               !.int_enabled = FALSE, !.halted = TRUE ]

\* a panic unwinds out of the method: a later statement of it does not run
Then(c, next) == IF c.panic THEN c ELSE next

\* CPU::push_data
push_data(c, word) ==
    LET c1 == poke24(c, c.dp, word)
    IN  Then(c1, [c1 EXCEPT !.dp = WordAddI32(@, 3)])

\* (a slip: the word is written before sp moves down, as push_data does
\* with dp)
push_call_writes_first(c, word) ==
    LET c1 == poke24(c, c.sp, word)
    IN  Then(c1, [c1 EXCEPT !.sp = WordSubI32(@, 3)])

\* (a slip: sp moves, but the word goes under dp, onto the data stack)
push_call_under_dp(c, word) ==
    LET c1 == Then(c, [c EXCEPT !.sp = WordSubI32(@, 3)])
    IN  poke24(c1, WordSubI32(c1.dp, 3), word)

\* CPU::push_call
push_call(c, word) ==
    LET c1 == Then(c, [c EXCEPT !.sp = WordSubI32(@, 3)])
    IN  poke24(c1, c1.sp, word)

\* (a slip: the word is read before dp moves down, as pop_call does with sp)
pop_data_reads_first(c) ==
    LET r == peek24(c, c.dp)
    IN  [c |-> Then(r.c, [r.c EXCEPT !.dp = WordSubI32(@, 3)]), val |-> r.val]

\* CPU::pop_data: the machine after it and the word returned
pop_data(c) ==
    LET c1 == Then(c, [c EXCEPT !.dp = WordSubI32(@, 3)])
    IN  peek24(c1, c1.dp)

\* CPU::pop_call
pop_call(c) ==
    LET r == peek24(c, c.sp)
    IN  [c |-> Then(r.c, [r.c EXCEPT !.sp = WordAddI32(@, 3)]), val |-> r.val]

\* CPU::peek_call
peek_call(c) == peek24(c, c.sp)

\* CPU::peek_data
peek_data(c) == peek24(c, WordSubI32(c.dp, 3))

\* CPU::get_stack of the tests: the words from 256 up to dp, the loop
\* `while curr < self.dp { v.push(peek24(curr)); curr += 3 }`.  A read past
\* the end of the memory panics and no vector is returned.
get_stack(c) ==
    LET count == IF c.dp > 256 THEN (c.dp - 254) \div 3 ELSE 0
        curr(k) == WordFromU32(256 + 3 * (k - 1))
    IN  IF \E k \in 1..count : peek24(c, curr(k)).c.panic
        THEN [panic |-> TRUE, val |-> << >>]
        ELSE [panic |-> FALSE, val |-> [k \in 1..count |-> peek24(c, curr(k)).val]]

\* ------------------------------------------------------------------------
\* cpu.rs: fetch
\* ------------------------------------------------------------------------

\* (a slip: the shift counts bits, not bytes)
operand_shift_bits(k) == k

\* `b <<= 8 * n`: the shift of operand byte n
operand_shift(k) == 8 * k

RECURSIVE fetch_arg(_, _, _, _)
\* the loop `for n in 0..arg_length` of fetch, from n = k on with arg so far
fetch_arg(c, arg_length, k, arg) ==
    IF k >= arg_length THEN [c |-> c, val |-> arg]
    ELSE LET r == peek(c, WordAddI32(c.pc, k + 1))
             b == r.val * Pow2(operand_shift(k))
         IN  IF r.c.panic THEN [c |-> r.c, val |-> 0]
             ELSE fetch_arg(r.c, arg_length, k + 1, arg + b)

\* the value None of Option<Word>
None == [some |-> FALSE]

\* the value Some(w) of Option<Word>
Some(w) == [some |-> TRUE, val |-> w]

\* CPU::fetch: Ok(Instruction), Err(InvalidOpcode) or a panic
fetch(c) ==
    LET lead == peek(c, c.pc)
        instruction == lead.val
        decoded == try_from(instruction \div 4)
        arg_length == instruction % 4
    IN  IF lead.c.panic THEN [kind |-> "Panic"]
        ELSE IF ~decoded.ok THEN [kind |-> "Err", InvalidOpcode |-> decoded.err]
        ELSE IF arg_length = 0
        THEN [kind |-> "Ok",
              instruction |-> [opcode |-> decoded.opcode, arg |-> None, length |-> 1]]
        ELSE LET a == fetch_arg(lead.c, arg_length, 0, 0)
             IN  IF a.c.panic THEN [kind |-> "Panic"]
                 ELSE [kind |-> "Ok",
                       instruction |-> [opcode |-> decoded.opcode,
                                        arg |-> Some(WordFromU32(a.val)),
                                        length |-> arg_length + 1]]


\* ------------------------------------------------------------------------
\* cpu.rs: execute
\* ------------------------------------------------------------------------

\* the machine after a [panic, val] result: panicked, or the value pushed
push_result(c, r) == IF r.panic THEN Then(c, [c EXCEPT !.panic = TRUE]) ELSE push_data(c, r.val)

RECURSIVE arshift_loop(_, _)
\* `for _ in 0..n { shifted = shifted >> 1 | 0x800000 }`, count rounds to go.
\* A Word is never negative: the test makes each round's value be computed
\* before the next round starts, as the loop does.
arshift_loop(shifted, count) ==
    IF count = 0 \/ shifted < 0 THEN shifted
    ELSE arshift_loop(WordOrI32(WordShrI32(shifted, 1), SIGN_BIT), count - 1)

\* u32::clamp(0, 24)
clamp24(v) == IF v > 24 THEN 24 ELSE IF v < 0 THEN 0 ELSE v

\* (a slip: the sign is never filled in, every Arshift is a Rshift)
arshift_logical(c, x, y, oc) == push_result(c, WordShr(y, x, oc))

\* the arm Opcode::Arshift
arshift(c, x, y, oc) ==
    IF ~WordEqI32(WordAndI32(y, SIGN_BIT), 0)
    THEN push_data(c, arshift_loop(y, clamp24(U32FromWord(x))))
    ELSE push_result(c, WordShr(y, x, oc))

\* what a `return` or the end of execute yields: the machine and the next pc
Returns(c, pc) == [c |-> c, pc |-> pc]

\* (a slip: the operand bytes are forgotten, pc moves past the lead byte only)
next_pc_lead_only(c, instruction) == WordAddI32(c.pc, 1)

\* the end of both branches of execute: self.pc + instruction.length as i32
next_pc(c, instruction) == WordAddI32(c.pc, instruction.length)

\* (a slip: the registers the other way round, sp from x and dp from y)
setsdp_swapped(c, x, y) == Then(c, [c EXCEPT !.sp = x, !.dp = y])

\* the arm Opcode::Setsdp: self.dp = x.into(); self.sp = y.into()
setsdp(c, x, y) == Then(c, [c EXCEPT !.dp = x, !.sp = y])

\* (a slip: a taken branch goes to x itself, as Jmp does)
branch_target_absolute(c, x) == x

\* `return self.pc + i32::from(x)` of Brz and Brnz
branch_target(c, x) == WordAddI32(c.pc, I32FromWord(x))

\* the branch `if instruction.opcode.is_binary()` of execute, x and y popped
execute_binary(c, instruction, x, y, oc) ==
    LET op == instruction.opcode
        fall(c1) == Returns(c1, next_pc(c1, instruction))
    IN  CASE op = "Add" -> fall(push_data(c, WordAdd(x, y)))
          [] op = "Sub" -> fall(push_data(c, WordSub(y, x)))
          [] op = "Mul" -> fall(push_data(c, WordMul(y, x)))
          [] op = "Div" -> fall(push_result(c, WordDiv(y, x)))
          [] op = "Mod" -> fall(push_result(c, WordRem(y, x)))
          [] op = "And" -> fall(push_data(c, WordAnd(y, x)))
          [] op = "Or" -> fall(push_data(c, WordOr(y, x)))
          [] op = "Xor" -> fall(push_data(c, WordXor(y, x)))
          [] op = "Gt" -> fall(push_data(c, WordFromBool(WordGt(y, x))))
          [] op = "Lt" -> fall(push_data(c, WordFromBool(WordLt(y, x))))
          [] op = "Agt" -> fall(push_data(c, WordFromBool(I32FromWord(y) > I32FromWord(x))))
          [] op = "Alt" -> fall(push_data(c, WordFromBool(I32FromWord(y) < I32FromWord(x))))
          [] op = "Lshift" -> fall(push_result(c, WordShl(y, x, oc)))
          [] op = "Rshift" -> fall(push_result(c, WordShr(y, x, oc)))
          [] op = "Arshift" -> fall(arshift(c, x, y, oc))
          [] op = "Swap" -> fall(push_data(push_data(c, x), y))
          [] op = "Store" -> fall(poke8(c, x, to_bytes(y)[1]))
          [] op = "Storew" -> fall(poke24(c, x, y))
          [] op = "Setsdp" -> fall(setsdp(c, x, y))
          [] op = "Brz" -> IF WordEqI32(y, 0)
                           THEN Returns(c, branch_target(c, x))
                           ELSE fall(c)
          [] op = "Brnz" -> IF ~WordEqI32(y, 0)
                            THEN Returns(c, branch_target(c, x))
                            ELSE fall(c)

\* (a slip: the second word is the dp from before the instruction, plus 3)
sdp_stale_dp(c) ==
    LET c1 == push_data(c, c.sp)
    IN  push_data(c1, WordAddI32(c.dp, 3))

\* the arm Opcode::Sdp: push_data(self.sp); push_data(self.dp + 3), the
\* second self.dp read after the first push has moved it
sdp(c) ==
    LET c1 == push_data(c, c.sp)
    IN  push_data(c1, WordAddI32(c1.dp, 3))

\* (a slip: the index counts from the word the pop removed, one word short)
pick_from_popped(c) ==
    LET index == pop_data(c)
        val == peek24(index.c, WordSubI32(index.c.dp, I32FromWord(index.val) * 3))
    IN  push_data(val.c, val.val)

\* the arm Opcode::Pick
pick(c) ==
    LET index == pop_data(c)
        val == peek24(index.c, WordSubI32(index.c.dp, (I32FromWord(index.val) + 1) * 3))
    IN  push_data(val.c, val.val)

\* the arm Opcode::Rot
rot(c) ==
    LET x == pop_data(c)
        y == pop_data(x.c)
        z == pop_data(y.c)
    IN  push_data(push_data(push_data(z.c, y.val), x.val), z.val)

\* (a slip: Rand does what its name says and pushes a word)
rand_pushes(c) == push_data(c, WordFromU32(4))

\* the arm Opcode::Rand => {}
rand(c) == c

\* the else branch of execute (the non-binary opcodes)
execute_other(c, instruction) ==
    LET op == instruction.opcode
        fall(c1) == Returns(c1, next_pc(c1, instruction))
    IN  CASE op \in {"Nop", "Debug"} -> fall(c)
          [] op = "Rand" -> fall(rand(c))
          [] op = "Not" -> LET x == pop_data(c)
                           IN  fall(push_data(x.c, WordFromBool(WordEqI32(x.val, 0))))
          [] op = "Pop" -> fall(pop_data(c).c)
          [] op = "Dup" -> LET t == peek_data(c) IN fall(push_data(t.c, t.val))
          [] op = "Pick" -> fall(pick(c))
          [] op = "Rot" -> fall(rot(c))
          [] op = "Jmp" -> LET x == pop_data(c) IN Returns(x.c, x.val)
          [] op = "Jmpr" -> LET x == pop_data(c)
                            IN  Returns(x.c, WordAddI32(x.c.pc, I32FromWord(x.val)))
          [] op = "Call" -> LET x == pop_data(c)
                            IN  Returns(push_call(x.c, next_pc(x.c, instruction)), x.val)
          [] op = "Ret" -> LET r == pop_call(c) IN Returns(r.c, r.val)
          [] op = "Hlt" -> fall(Then(c, [c EXCEPT !.halted = TRUE]))
          [] op = "Load" -> LET x == pop_data(c)
                                b == peek8(x.c, x.val)
                            IN  fall(push_data(b.c, WordFromU8(b.val)))
          [] op = "Loadw" -> LET x == pop_data(c)
                                 w == peek24(x.c, x.val)
                             IN  fall(push_data(w.c, w.val))
          [] op = "Inton" -> fall(Then(c, [c EXCEPT !.int_enabled = TRUE]))
          [] op = "Intoff" -> fall(Then(c, [c EXCEPT !.int_enabled = FALSE]))
          [] op = "Setiv" -> LET x == pop_data(c)
                             IN  fall(Then(x.c, [x.c EXCEPT !.iv = x.val]))
          [] op = "Sdp" -> fall(sdp(c))
          [] op = "Pushr" -> LET x == pop_data(c) IN fall(push_call(x.c, x.val))
          [] op = "Popr" -> LET r == pop_call(c) IN fall(push_data(r.c, r.val))
          [] op = "Peekr" -> LET r == peek_call(c) IN fall(push_data(r.c, r.val))

\* (a slip: execute made a no-op while the machine is halted)
execute_gated(c, instruction, oc) ==
    LET c0 == IF instruction.arg.some THEN push_data(c, instruction.arg.val) ELSE c
    IN  IF c.halted THEN Returns(c, c.pc)
        ELSE IF c0.panic THEN Returns(c0, c.pc)
        ELSE IF is_binary(instruction.opcode)
        THEN LET x == pop_data(c0)
                 y == pop_data(x.c)
             IN  IF y.c.panic THEN Returns(y.c, c.pc)
                 ELSE execute_binary(y.c, instruction, x.val, y.val, oc)
        ELSE execute_other(c0, instruction)

\* (a slip: the immediate is pushed after the opcode has acted, not before)
execute_arg_last(c, instruction, oc) ==
    LET r == IF is_binary(instruction.opcode)
             THEN LET x == pop_data(c)
                      y == pop_data(x.c)
                  IN  IF y.c.panic THEN Returns(y.c, c.pc)
                      ELSE execute_binary(y.c, instruction, x.val, y.val, oc)
             ELSE execute_other(c, instruction)
    IN  IF instruction.arg.some /\ ~r.c.panic
        THEN Returns(push_data(r.c, instruction.arg.val), r.pc)
        ELSE r

\* CPU::execute: the machine after it and the next pc it returns (a panic
\* in push_data or pop_data unwinds out of execute: no pc is returned)
execute(c, instruction, oc) ==
    LET c0 == IF instruction.arg.some THEN push_data(c, instruction.arg.val) ELSE c
    IN  IF c0.panic THEN Returns(c0, c.pc)
        ELSE IF is_binary(instruction.opcode)
        THEN LET x == pop_data(c0)
                 y == pop_data(x.c)
             IN  IF y.c.panic THEN Returns(y.c, c.pc)
                 ELSE execute_binary(y.c, instruction, x.val, y.val, oc)
        ELSE execute_other(c0, instruction)


\* ------------------------------------------------------------------------
\* bus.rs: Bus<A, B> and the devices its tests compose.  A device is a
\* record tagged with its type; a call on it yields the device after the
\* call and whether the call panicked.
\* ------------------------------------------------------------------------

\* struct ArrayDevice([u8; 10]) of the tests
ArrayDevice(bytes) == [kind |-> "ArrayDevice", bytes |-> bytes]

\* struct TestDevice(i32) of the tests
TestDevice(count) == [kind |-> "TestDevice", count |-> count]

\* Bus::new(start, end, device, rest)
Bus_new(start, end, device, rest) ==
    [kind |-> "Bus", start |-> WordFromU32(start), end |-> WordFromU32(end),
     device |-> device, rest |-> rest]

\* Bus::at(addr, device, rest)
Bus_at(addr, device, rest) == Bus_new(addr, addr, device, rest)

\* impl PeekPoke for ArrayDevice: peek, self.0[usize::from(addr)] bounds-checked
array_peek(d, addr) ==
    IF UsizeFromWord(addr) < Len(d.bytes)
    THEN [panic |-> FALSE, val |-> d.bytes[UsizeFromWord(addr) + 1]]
    ELSE [panic |-> TRUE, val |-> 0]

\* impl PeekPoke for ArrayDevice: poke
array_poke(d, addr, val) ==
    IF UsizeFromWord(addr) < Len(d.bytes)
    THEN [panic |-> FALSE, d |-> [d EXCEPT !.bytes[UsizeFromWord(addr) + 1] = val]]
    ELSE [panic |-> TRUE, d |-> d]

\* (a slip: the range taken without its two end addresses)
selects_device_exclusive(b, addr) ==
    U32FromWord(addr) > U32FromWord(b.start) /\ U32FromWord(addr) < U32FromWord(b.end)

\* `addr >= self.start && addr <= self.end` (PartialOrd of Word, on the u32)
selects_device(b, addr) ==
    U32FromWord(addr) >= U32FromWord(b.start) /\ U32FromWord(addr) <= U32FromWord(b.end)

\* (a slip: the device handed the bus address)
device_addr_absolute(b, addr) == addr

\* `addr - self.start`, the address the entry's device sees
device_addr(b, addr) == WordSub(addr, b.start)

RECURSIVE bus_peek(_, _)
\* impl PeekPoke for Bus<A, B>: peek, A and B a Bus or an ArrayDevice
bus_peek(b, addr) ==
    IF b.kind = "ArrayDevice" THEN array_peek(b, addr)
    ELSE IF selects_device(b, addr)
    THEN bus_peek(b.device, device_addr(b, addr))
    ELSE bus_peek(b.rest, addr)

RECURSIVE bus_poke(_, _, _)
\* impl PeekPoke for Bus<A, B>: poke
bus_poke(b, addr, val) ==
    IF b.kind = "ArrayDevice" THEN array_poke(b, addr, val)
    ELSE IF selects_device(b, addr)
    THEN LET r == bus_poke(b.device, device_addr(b, addr), val)
         IN  [panic |-> r.panic, d |-> [b EXCEPT !.device = r.d]]
    ELSE LET r == bus_poke(b.rest, addr, val)
         IN  [panic |-> r.panic, d |-> [b EXCEPT !.rest = r.d]]

\* i32::MAX
I32_MAX == 2147483647

\* impl Device for TestDevice: tick, self.0 += 1 on an i32.  At i32::MAX the
\* addition overflows: a build with overflow checks (oc) panics and leaves
\* the count, a build without them wraps to i32::MIN.
test_device_tick(d, oc) ==
    IF d.count = I32_MAX
    THEN IF oc THEN [panic |-> TRUE, d |-> d]
         ELSE [panic |-> FALSE, d |-> [d EXCEPT !.count = (0 - I32_MAX) - 1]]
    ELSE [panic |-> FALSE, d |-> [d EXCEPT !.count = @ + 1]]

\* impl Device for TestDevice: reset, self.0 = 10
test_device_reset(d) == [d EXCEPT !.count = 10]

RECURSIVE bus_tick_device_only(_, _, _)
\* (a slip: the tick is not handed on to rest)
bus_tick_device_only(b, path, oc) ==
    IF b.kind = "TestDevice"
    THEN LET r == test_device_tick(b, oc)
         IN  [panic |-> r.panic, d |-> r.d, order |-> << path >>]
    ELSE LET first == bus_tick_device_only(b.device, Append(path, "device"), oc)
         IN  [panic |-> first.panic, d |-> [b EXCEPT !.device = first.d],
              order |-> first.order]

RECURSIVE bus_tick(_, _, _)
\* impl Device for Bus<A, B>: tick, A and B a Bus or a TestDevice.  The
\* result is the bus after the call and the devices in the order their tick
\* ran, each named by its path of fields from the bus the host holds.  A
\* panic in the tick of device ends the call before rest is ticked.
bus_tick(b, path, oc) ==
    IF b.kind = "TestDevice"
    THEN LET r == test_device_tick(b, oc)
         IN  [panic |-> r.panic, d |-> r.d, order |-> << path >>]
    ELSE LET first == bus_tick(b.device, Append(path, "device"), oc)
             second == bus_tick(b.rest, Append(path, "rest"), oc)
         IN  IF first.panic
             THEN [panic |-> TRUE, d |-> [b EXCEPT !.device = first.d],
                   order |-> first.order]
             ELSE [panic |-> second.panic,
                   d |-> [b EXCEPT !.device = first.d, !.rest = second.d],
                   order |-> first.order \o second.order]

RECURSIVE bus_reset(_, _)
\* impl Device for Bus<A, B>: reset
bus_reset(b, path) ==
    IF b.kind = "TestDevice" THEN [d |-> test_device_reset(b), order |-> << path >>]
    ELSE LET first == bus_reset(b.device, Append(path, "device"))
             second == bus_reset(b.rest, Append(path, "rest"))
         IN  [d |-> [b EXCEPT !.device = first.d, !.rest = second.d],
              order |-> first.order \o second.order]

\* ------------------------------------------------------------------------
\* display.rs: the rasterizer.  draw reads the register block at 16 and
\* writes every pixel of a 640 x 480 RGBA frame; the iterations of its loop
\* are independent of one another, so the frame is held at a set of pixel
\* indices and each of them is computed as the loop body computes it.  A
\* pixel's result is [panic, px, from]: whether a peek or a remainder
\* panicked, the four bytes written, and the colour byte (vb, color,
\* fg_color or bg_color) they were written from, -1 for the literal 0s.
\* ------------------------------------------------------------------------

\* convert_via!(u8 => u32), From<Word> for u8: u32::from(value) as u8
U8FromWord(w) == U32FromWord(w) % 256

\* Add<u8> for Word (ops!(u8)): both sides as u8, overflowing_add, into()
WordAddU8(w, rhs) == WordFromU8((U8FromWord(w) + rhs) % 256)

\* Add<u32> for Word (ops!(u32)): u32 overflowing_add, then into()
WordAddU32(w, rhs) == WordFromU32(U32FromWord(w) + rhs)

\* impl Default for DisplayRegisters
DisplayRegistersDefault ==
    [ mode |-> 5,
      screen |-> WordFromI32(65536),
      palette |-> WordFromI32(131072 - 256),
      font |-> WordFromI32((131072 - 256) - 8192),
      height |-> WordFromI32(128),
      width |-> WordFromI32(128),
      row_offset |-> WordFromI32(0),
      col_offset |-> WordFromI32(0) ]

\* read_display_registers: the result is [panic, reg]
read_display_registers(c, start) ==
    LET mode == peek8(c, start)
        screen == peek24(c, WordAddI32(start, 1))
        palette == peek24(c, WordAddI32(start, 4))
        font == peek24(c, WordAddI32(start, 7))
        height == peek24(c, WordAddI32(start, 10))
        width == peek24(c, WordAddI32(start, 13))
        row_offset == peek24(c, WordAddI32(start, 16))
        col_offset == peek24(c, WordAddI32(start, 19))
    IN  [ panic |-> \/ mode.c.panic \/ screen.c.panic \/ palette.c.panic
                    \/ font.c.panic \/ height.c.panic \/ width.c.panic
                    \/ row_offset.c.panic \/ col_offset.c.panic,
          reg |-> [ mode |-> mode.val, screen |-> screen.val, palette |-> palette.val,
                    font |-> font.val, height |-> height.val, width |-> width.val,
                    row_offset |-> row_offset.val, col_offset |-> col_offset.val ] ]

\* init_display_registers
init_display_registers(c, start) ==
    LET dr == DisplayRegistersDefault
        c1 == poke(c, start, dr.mode)
        c2 == poke24(c1, WordAddI32(start, 1), dr.screen)
        c3 == poke24(c2, WordAddI32(start, 4), dr.palette)
        c4 == poke24(c3, WordAddI32(start, 7), dr.font)
        c5 == poke24(c4, WordAddI32(start, 10), dr.height)
        c6 == poke24(c5, WordAddI32(start, 13), dr.width)
        c7 == poke24(c6, WordAddI32(start, 16), dr.row_offset)
    IN  poke24(c7, WordAddI32(start, 19), dr.col_offset)

\* the memory with every byte of f (offset -> byte, all offsets inside the
\* array) written: what a run of pokes that stay inside the array leaves
MemSetAll(m, f) ==
    [x \in ((DOMAIN m \ DOMAIN f) \cup { o \in DOMAIN f : f[o] # 0 }) |->
        IF x \in DOMAIN f THEN f[x] ELSE m[x]]

\* include_bytes!("font.rom"): 2048 bytes, eight per glyph, one per glyph
\* row.  The file is not among the sources; this blob stands for it: its
\* first sixteen glyphs are drawn, a mix of set and clear bits, and the
\* others are blank.
FontRom == [k \in 1..2048 |-> IF k <= 128 THEN ((k - 1) * 73 + 29) % 256 ELSE 0]

\* init_font: poke_slice of the blob at the default font address; the 2048
\* addresses from 0x1DF00 lie inside the array, so no poke panics
init_font(c) ==
    IF c.panic THEN c
    ELSE LET font == UsizeFromWord(DisplayRegistersDefault.font)
         IN  [c EXCEPT !.memory =
                 MemSetAll(@, [o \in font..(font + 2047) |-> FontRom[(o - font) + 1]])]

\* init_palette
init_palette(c) ==
    LET r == read_display_registers(c, WordFromI32(16))
    IN  IF c.panic THEN c
        ELSE IF r.panic THEN [c EXCEPT !.panic = TRUE]
        ELSE poke_slice(c, r.reg.palette,
                        << 0, 5, 101, 17, 168, 73, 235, 255, 225, 244, 252, 28, 55, 142,
                           238, 250 >>)

\* display::reset
display_reset(c) == init_palette(init_font(init_display_registers(c, WordFromI32(16))))

\* row_start of to_byte_address: (y + reg.row_offset % reg.height) *
\* reg.width + reg.screen; the result is [panic, val].  `%` binds tighter
\* than `+`: the row is y + (row_offset % height).
row_start(y, reg) ==
    LET off == WordRem(reg.row_offset, reg.height)
    IN  [panic |-> off.panic,
         val |-> WordAdd(WordMul(WordAdd(y, off.val), reg.width), reg.screen)]

\* the column of to_byte_address: (x + reg.col_offset) % reg.width
col_in_row(x, reg) == WordRem(WordAdd(x, reg.col_offset), reg.width)

\* to_byte_address((x, y), reg); the result is [panic, val]
to_byte_address(x, y, reg) ==
    LET row == row_start(y, reg)
        column == col_in_row(x, reg)
    IN  IF row.panic \/ column.panic THEN [panic |-> TRUE, val |-> 0]
        ELSE [panic |-> FALSE, val |-> WordAdd(column.val, row.val)]

\* (a slip: green taken from bits 3..5, as the draw of main.rs does)
rgb332_green_shift3(vb) ==
    << ((vb \div 32) * 32) % 256, (((vb \div 8) % 8) * 32) % 256,
       (((vb % 4) * 2) * 32) % 256 >>

\* (vb >> 5, (vb >> 2) & 7, (vb & 3) << 1), each << 5, in u8
rgb332(vb) ==
    << ((vb \div 32) * 32) % 256, (((vb \div 4) % 8) * 32) % 256,
       (((vb % 4) * 2) * 32) % 256 >>

\* the pixel written from a colour byte: pixel[0..2] from it, pixel[3] = 0xff
Pixel(colour) == [panic |-> FALSE, px |-> rgb332(colour) \o << 255 >>, from |-> colour]

\* the pixel written 0, 0, 0, 0xff
BlackPixel == [panic |-> FALSE, px |-> << 0, 0, 0, 255 >>, from |-> -1]

\* the iteration panicked: the pixel was not written
PixelPanic == [panic |-> TRUE, px |-> << 0, 0, 0, 0 >>, from |-> -1]

\* the body of the loops of draw_direct_high_gfx and draw_direct_low_gfx
\* once the logical coordinates are known
direct_gfx_pixel(c, reg, vulcan_row, vulcan_col) ==
    LET addr == to_byte_address(vulcan_col, vulcan_row, reg)
        vb == peek(c, addr.val)
    IN  IF addr.panic THEN PixelPanic
        ELSE IF vb.c.panic THEN PixelPanic
        ELSE Pixel(vb.val)

\* reg.palette + color_idx, color_idx a u8
palette_entry(reg, color_idx) == WordAddU8(reg.palette, color_idx)

\* the body of the loops of draw_paletted_high_gfx and draw_paletted_low_gfx
paletted_gfx_pixel(c, reg, vulcan_row, vulcan_col) ==
    LET addr == to_byte_address(vulcan_col, vulcan_row, reg)
        color_idx == peek(c, addr.val)
        color == peek(c, palette_entry(reg, color_idx.val))
    IN  IF addr.panic THEN PixelPanic
        ELSE IF color_idx.c.panic THEN PixelPanic
        ELSE IF color.c.panic THEN PixelPanic
        ELSE Pixel(color.val)

\* char_byte & (1 << (7 - char_col)) != 0
glyph_bit(char_byte, char_col) == (char_byte \div Pow2(7 - char_col)) % 2 # 0

\* reg.font + (char_idx << 3) + char_row
glyph_address(reg, char_idx, char_row) ==
    WordAddUsize(WordAddU32(reg.font, char_idx * 8), char_row)

\* the body of the loops of draw_direct_high_text and draw_direct_low_text
\* once the cell and the glyph row and column are known
direct_text_pixel(c, reg, vulcan_row, vulcan_col, char_row, char_col) ==
    LET addr == to_byte_address(vulcan_col, vulcan_row, reg)
        char_idx == peek(c, addr.val)
        char_byte == peek(c, glyph_address(reg, char_idx.val, char_row))
        color_addr == WordAdd(addr.val, WordMul(reg.width, reg.height))
        color == peek(c, color_addr)
    IN  IF addr.panic THEN PixelPanic
        ELSE IF char_idx.c.panic \/ char_byte.c.panic \/ color.c.panic THEN PixelPanic
        ELSE IF glyph_bit(char_byte.val, char_col) THEN Pixel(color.val)
        ELSE BlackPixel

\* the body of the loops of draw_paletted_high_text and draw_paletted_low_text
paletted_text_pixel(c, reg, vulcan_row, vulcan_col, char_row, char_col) ==
    LET addr == to_byte_address(vulcan_col, vulcan_row, reg)
        char_idx == peek(c, addr.val)
        char_byte == peek(c, glyph_address(reg, char_idx.val, char_row))
        color_addr == WordAdd(addr.val, WordMul(reg.width, reg.height))
        color_byte == peek(c, color_addr)
        fg_color_idx == color_byte.val % 16
        bg_color_idx == color_byte.val \div 16
        fg_color == peek(c, palette_entry(reg, fg_color_idx))
        bg_color == peek(c, palette_entry(reg, bg_color_idx))
    IN  IF addr.panic THEN PixelPanic
        ELSE IF char_idx.c.panic \/ char_byte.c.panic \/ color_byte.c.panic THEN PixelPanic
        ELSE IF fg_color.c.panic \/ bg_color.c.panic THEN PixelPanic
        ELSE IF glyph_bit(char_byte.val, char_col) THEN Pixel(fg_color.val)
        ELSE Pixel(bg_color.val)

\* (display_row, display_col) = (i / 640, i % 640)
display_row(i) == i \div 640
display_col(i) == i % 640

\* draw_direct_high_gfx, pixel i
draw_direct_high_gfx(c, reg, i) ==
    direct_gfx_pixel(c, reg, WordFromUsize(display_row(i) \div 4),
                     WordFromUsize(display_col(i) \div 4))

\* draw_paletted_high_gfx, pixel i
draw_paletted_high_gfx(c, reg, i) ==
    paletted_gfx_pixel(c, reg, WordFromUsize(display_row(i) \div 4),
                       WordFromUsize(display_col(i) \div 4))

\* draw_paletted_high_text, pixel i: the cell from display_row >> 2 and
\* display_col >> 2, the glyph row and column from % 8
draw_paletted_high_text(c, reg, i) ==
    paletted_text_pixel(c, reg, WordFromUsize(display_row(i) \div 4),
                        WordFromUsize(display_col(i) \div 4),
                        display_row(i) % 8, display_col(i) % 8)

\* draw_direct_high_text, pixel i
draw_direct_high_text(c, reg, i) ==
    direct_text_pixel(c, reg, WordFromUsize(display_row(i) \div 4),
                      WordFromUsize(display_col(i) \div 4),
                      display_row(i) % 8, display_col(i) % 8)

\* draw_direct_low_text, pixel i: the cell from >> 2 here too, the glyph
\* row and column from (display_row / 2) % 8 and (display_col / 2) % 8
draw_direct_low_text(c, reg, i) ==
    direct_text_pixel(c, reg, WordFromUsize(display_row(i) \div 4),
                      WordFromUsize(display_col(i) \div 4),
                      (display_row(i) \div 2) % 8, (display_col(i) \div 2) % 8)

\* draw_paletted_low_text, pixel i
draw_paletted_low_text(c, reg, i) ==
    paletted_text_pixel(c, reg, WordFromUsize(display_row(i) \div 4),
                        WordFromUsize(display_col(i) \div 4),
                        (display_row(i) \div 2) % 8, (display_col(i) \div 2) % 8)

\* (a slip: the window 192 pixels a side, 96 on each side of the centre)
in_low_gfx_window_192(i) ==
    /\ display_row(i) >= 240 - 32 * 3
    /\ display_row(i) < 240 + 32 * 3
    /\ display_col(i) >= 320 - 32 * 3
    /\ display_col(i) < 320 + 32 * 3

\* the test of the low-res graphics loops: 64 * 3 pixels on each side of
\* the centre (240, 320)
in_low_gfx_window(i) ==
    /\ display_row(i) >= 240 - 64 * 3
    /\ display_row(i) < 240 + 64 * 3
    /\ display_col(i) >= 320 - 64 * 3
    /\ display_col(i) < 320 + 64 * 3

\* draw_direct_low_gfx, pixel i
draw_direct_low_gfx(c, reg, i) ==
    IF in_low_gfx_window(i)
    THEN direct_gfx_pixel(c, reg,
                          WordFromUsize((display_row(i) - (240 - 64 * 3)) \div 3),
                          WordFromUsize((display_col(i) - (320 - 64 * 3)) \div 3))
    ELSE BlackPixel

\* draw_paletted_low_gfx, pixel i
draw_paletted_low_gfx(c, reg, i) ==
    IF in_low_gfx_window(i)
    THEN paletted_gfx_pixel(c, reg,
                            WordFromUsize((display_row(i) - (240 - 64 * 3)) \div 3),
                            WordFromUsize((display_col(i) - (320 - 64 * 3)) \div 3))
    ELSE BlackPixel

\* (gfx, highres, paletted) = (mode & 1 > 0, mode & 2 > 0, mode & 4 > 0)
mode_gfx(reg) == reg.mode % 2 > 0
mode_highres(reg) == (reg.mode \div 2) % 2 > 0
mode_paletted(reg) == (reg.mode \div 4) % 2 > 0

\* the match of draw on (paletted, highres, gfx), for pixel i
draw_pixel(c, reg, i) ==
    LET m == << mode_paletted(reg), mode_highres(reg), mode_gfx(reg) >>
    IN  CASE m = << TRUE, TRUE, TRUE >> -> draw_paletted_high_gfx(c, reg, i)
          [] m = << FALSE, TRUE, TRUE >> -> draw_direct_high_gfx(c, reg, i)
          [] m = << TRUE, TRUE, FALSE >> -> draw_paletted_high_text(c, reg, i)
          [] m = << FALSE, TRUE, FALSE >> -> draw_direct_high_text(c, reg, i)
          [] m = << FALSE, FALSE, FALSE >> -> draw_direct_low_text(c, reg, i)
          [] m = << TRUE, FALSE, FALSE >> -> draw_paletted_low_text(c, reg, i)
          [] m = << FALSE, FALSE, TRUE >> -> draw_direct_low_gfx(c, reg, i)
          [] m = << TRUE, FALSE, TRUE >> -> draw_paletted_low_gfx(c, reg, i)

\* the rows and the columns of the frame the host hands to draw: 640 x 480
\* pixels of four bytes
FrameRows == 0 .. 479
FrameCols == 0 .. 639

\* whether an iteration of the loop of draw panics on a frame of FrameRows
\* by FrameCols.  The frame is a full rectangle, so the loop meets every
\* logical column in every logical row, and in the text modes with every
\* glyph row of the display rows of that logical row; what an iteration
\* reads is fixed by its logical row and column and its glyph row, the
\* glyph column only selecting a bit of a byte already read.  So the reads
\* of the loop body are made once for each cell: the byte at the address
\* to_byte_address gives, then in the text modes the colour byte and, for
\* each byte found in a cell and each glyph row of that cell, the glyph
\* byte, then in the paletted modes the palette entries; a read outside the
\* array panics (peek).
frame_panics(c, reg) ==
    LET low_gfx == mode_gfx(reg) /\ ~mode_highres(reg)
        rows == IF low_gfx
                THEN { (r - (240 - 64 * 3)) \div 3 :
                           r \in { q \in FrameRows : q >= 240 - 64 * 3 /\ q < 240 + 64 * 3 } }
                ELSE { r \div 4 : r \in FrameRows }
        cols == IF low_gfx
                THEN { (q - (320 - 64 * 3)) \div 3 :
                           q \in { k \in FrameCols : k >= 320 - 64 * 3 /\ k < 320 + 64 * 3 } }
                ELSE { q \div 4 : q \in FrameCols }
        char_rows(y) ==
            { IF mode_highres(reg) THEN r % 8 ELSE (r \div 2) % 8 :
                  r \in { q \in (4 * y) .. (4 * y + 3) : q \in FrameRows } }
        columns == { col_in_row(WordFromUsize(x), reg).val : x \in cols }
        starts(ys) == { row_start(WordFromUsize(y), reg).val : y \in ys }
        cells(ys) == { WordAdd(column, row) : row \in starts(ys), column \in columns }
        out(a) == ~IndexInBounds(a)
        byte(a) == MemGet(c.memory, UsizeFromWord(a))
        paletted == mode_paletted(reg)
        plane == WordMul(reg.width, reg.height)
        gfx_reads(a) ==
            \/ out(a)
            \/ paletted /\ out(palette_entry(reg, byte(a)))
        text_reads(a) ==
            LET color_addr == WordAdd(a, plane)
                color_byte == byte(color_addr)
            IN  \/ out(a)
                \/ out(color_addr)
                \/ /\ paletted
                   /\ \/ out(palette_entry(reg, color_byte % 16))
                      \/ out(palette_entry(reg, color_byte \div 16))
        glyph_reads(addrs, glyph_rows) ==
            \E char_idx \in { byte(a) : a \in addrs } : \E char_row \in glyph_rows :
                out(glyph_address(reg, char_idx, char_row))
    IN  \/ row_start(WordFromUsize(0), reg).panic
        \/ col_in_row(WordFromUsize(0), reg).panic
        \/ IF mode_gfx(reg)
           THEN \E a \in cells(rows) : gfx_reads(a)
           ELSE \E glyph_rows \in { char_rows(y) : y \in rows } :
                    LET addrs == cells({ y \in rows : char_rows(y) = glyph_rows })
                    IN  \/ \E a \in addrs : text_reads(a)
                        \/ glyph_reads(addrs, glyph_rows)

\* display::draw on a frame of FrameRows by FrameCols: [panic, reg, frame,
\* from].  The loop runs over every pixel of the frame and a panic in any
\* iteration ends the call; the pixels written are held at the indices
\* asked for.
draw(c, pixels) ==
    LET r == read_display_registers(c, WordFromI32(16))
    IN  IF r.panic \/ frame_panics(c, r.reg)
        THEN [panic |-> TRUE, reg |-> r.reg, frame |-> << >>, from |-> << >>]
        ELSE LET out == [i \in pixels |-> draw_pixel(c, r.reg, i)]
             IN  [ panic |-> FALSE,
                   reg |-> r.reg,
                   frame |-> [i \in pixels |-> out[i].px],
                   from |-> [i \in pixels |-> out[i].from] ]

\* ------------------------------------------------------------------------
\* State
\* ------------------------------------------------------------------------

VARIABLES
    cpu,      \* struct CPU: memory, pc, dp, sp, iv, int_enabled, halted
              \* (and panic: a call on it panicked, the thread is gone)
    fetched,  \* the result of the last fetch, until execute consumes it
    last,     \* the last call made on the machine, its arguments and result
    history,  \* the calls before `last`, most recent last (kept where needed)
    n,        \* how many calls of each kind the host has made
    bus,      \* a composed Bus
    written   \* for each bus address poked so far, the byte last poked there

vars == << cpu, fetched, last, history, n, bus, written >>

\* the six registers of a machine
regs(c) ==
    [ pc |-> c.pc, dp |-> c.dp, sp |-> c.sp, iv |-> c.iv,
      int_enabled |-> c.int_enabled, halted |-> c.halted ]

\* no fetch result is pending
NoFetch == [kind |-> "None"]

\* no call has been made yet: the machine is as CPU::new left it
NoCall == [op |-> "new"]

\* the record of a call that panicked instead of returning
Panicked(name) == [op |-> "panic", in |-> name]

\* ------------------------------------------------------------------------
\* Inputs and bounds
\* ------------------------------------------------------------------------

\* words the host pushes: zero, a small value and -3 (also an address
\* beyond the 128 KiB array)
PushWords == {0, 5, 16777213}

\* immediates an instruction carries, by their byte count
Immediates(k) == CASE k = 1 -> {2} [] k = 2 -> {2048} [] k = 3 -> {8388624}

\* every Instruction fetch can decode: opcode, arg and length = 1 + arg bytes
Instructions ==
    { [opcode |-> o, arg |-> None, length |-> 1] : o \in Opcodes }
    \cup UNION { { [opcode |-> o, arg |-> Some(a), length |-> k + 1] :
                   o \in Opcodes, a \in Immediates(k) } : k \in 1..3 }

\* pushes onto the data stack the host makes before an instruction
MaxData == 3

\* pushes onto the call stack the host makes before an instruction
MaxCall == 1

\* calls of reset the host makes
MaxReset == 1

\* values the host sets pc to: the top of the 24-bit space (pc + length wraps)
PcValues == {16777213}

\* the bus of test_poke_peek
TestBus == Bus_new(5, 10, ArrayDevice([i \in 1..10 |-> 0]), ArrayDevice([i \in 1..10 |-> 0]))

\* ------------------------------------------------------------------------
\* Actions: the calls a host (or the unit tests) makes on a CPU
\* ------------------------------------------------------------------------

\* CPU::new(Memory::default())
InitCPU ==
    /\ cpu = CPU_new(MemoryDefault)
    /\ fetched = NoFetch
    /\ last = NoCall
    /\ history = << >>
    /\ n = [data |-> 0, call |-> 0, exec |-> 0, reset |-> 0, ops |-> 0]
    /\ bus = TestBus
    /\ written = << >>

\* cpu.reset()
Reset ==
    /\ ~cpu.panic
    /\ cpu' = reset(cpu)
    /\ fetched' = NoFetch
    /\ last' = [op |-> "reset", pre |-> regs(cpu)]
    /\ n' = [n EXCEPT !.reset = @ + 1, !.ops = @ + 1]

\* cpu.push_data(word)
PushData(word) ==
    /\ ~cpu.panic
    /\ cpu' = push_data(cpu, word)
    /\ last' = IF cpu'.panic THEN Panicked("push_data")
               ELSE [op |-> "push_data", word |-> word, pre |-> regs(cpu),
                     mem |-> cpu.memory]
    /\ n' = [n EXCEPT !.data = @ + 1, !.ops = @ + 1]
    /\ UNCHANGED fetched

\* cpu.push_call(word)
PushCall(word) ==
    /\ ~cpu.panic
    /\ cpu' = push_call(cpu, word)
    /\ last' = IF cpu'.panic THEN Panicked("push_call")
               ELSE [op |-> "push_call", word |-> word, pre |-> regs(cpu),
                     mem |-> cpu.memory]
    /\ n' = [n EXCEPT !.call = @ + 1, !.ops = @ + 1]
    /\ UNCHANGED fetched

\* cpu.pop_data()
PopData ==
    /\ ~cpu.panic
    /\ LET r == pop_data(cpu)
       IN  /\ cpu' = r.c
           /\ last' = IF r.c.panic THEN Panicked("pop_data")
                      ELSE [op |-> "pop_data", val |-> r.val, pre |-> regs(cpu),
                     mem |-> cpu.memory]
    /\ n' = [n EXCEPT !.ops = @ + 1]
    /\ UNCHANGED fetched

\* cpu.pop_call()
PopCall ==
    /\ ~cpu.panic
    /\ LET r == pop_call(cpu)
       IN  /\ cpu' = r.c
           /\ last' = IF r.c.panic THEN Panicked("pop_call")
                      ELSE [op |-> "pop_call", val |-> r.val, pre |-> regs(cpu),
                     mem |-> cpu.memory]
    /\ n' = [n EXCEPT !.ops = @ + 1]
    /\ UNCHANGED fetched

\* let new_pc = cpu.execute(instruction); cpu.pc = new_pc
\* (the caller stores the returned pc, as predicate_opcode_test does)
Execute(instruction, oc) ==
    /\ ~cpu.panic
    /\ LET r == execute(cpu, instruction, oc)
       IN  /\ cpu' = IF r.c.panic THEN r.c ELSE [r.c EXCEPT !.pc = r.pc]
           /\ last' = IF r.c.panic
                      THEN [op |-> "panic", in |-> "execute", instruction |-> instruction,
                            oc |-> oc, pre |-> regs(cpu), mem |-> cpu.memory]
                      ELSE [op |-> "execute", instruction |-> instruction, oc |-> oc,
                            pre |-> regs(cpu), mem |-> cpu.memory, new_pc |-> r.pc]
    /\ fetched' = NoFetch
    /\ n' = [n EXCEPT !.exec = @ + 1, !.ops = @ + 1]

\* cpu.pc = word.into(), cpu.iv = word.into(), ...  (the tests set a
\* register directly: test_cpu_fetch, test_cpu_reset)
SetReg(r, word) ==
    /\ ~cpu.panic
    /\ cpu' = [cpu EXCEPT ![r] = word]
    /\ last' = [op |-> "set_reg", reg |-> r, word |-> word, pre |-> regs(cpu)]
    /\ n' = [n EXCEPT !.ops = @ + 1]
    /\ UNCHANGED fetched

\* cpu.fetch()
Fetch ==
    /\ ~cpu.panic
    /\ LET r == fetch(cpu)
       IN  /\ cpu' = IF r.kind = "Panic" THEN [cpu EXCEPT !.panic = TRUE] ELSE cpu
           /\ fetched' = r
           /\ last' = IF r.kind = "Panic" THEN Panicked("fetch")
                      ELSE [op |-> "fetch", result |-> r, pre |-> regs(cpu),
                            mem |-> cpu.memory]
    /\ n' = [n EXCEPT !.ops = @ + 1]

\* ------------------------------------------------------------------------
\* Spec: the unit tests' harness (predicate_opcode_test).  A fresh CPU over
\* zeroed memory, pc set or left, words pushed onto its stacks, then one
\* instruction handed to execute and the returned pc stored; a test may end
\* with reset (test_cpu_reset).
\* ------------------------------------------------------------------------

Init == InitCPU

\* whether the build checks overflow matters to the shifts only
Builds(i) == IF i.opcode \in {"Lshift", "Rshift", "Arshift"} THEN BOOLEAN ELSE {TRUE}

Next ==
    \/ (last.op = "new" /\ \E w \in PcValues : SetReg("pc", w)
           /\ UNCHANGED << history, bus, written >>)
    \/ (n.call < MaxCall /\ n.data = 0 /\ n.exec = 0 /\ n.reset = 0
           /\ \E w \in PushWords : PushCall(w)
           /\ UNCHANGED << history, bus, written >>)
    \/ (n.data < MaxData /\ n.exec = 0 /\ n.reset = 0
           /\ \E w \in PushWords : PushData(w)
           /\ UNCHANGED << history, bus, written >>)
    \/ (n.exec = 0 /\ n.reset = 0
           /\ \E i \in Instructions : \E oc \in Builds(i) : Execute(i, oc)
           /\ UNCHANGED << history, bus, written >>)
    \/ (n.reset < MaxReset /\ Reset /\ UNCHANGED << history, bus, written >>)

Spec == Init /\ [][Next]_vars

\* ------------------------------------------------------------------------
\* SpecRun: a host running a program.  Memory holds an instruction at 1024
\* (where CPU::new points pc) and again in the last three bytes of the
\* array; the host may move pc, then calls fetch, hands what it decoded to
\* execute and stores the returned pc, or calls reset.
\* ------------------------------------------------------------------------

\* every value of the lead byte
LeadBytes == 0 .. 255

\* the three bytes after the lead byte: 0x34, 0x12, 0x80
OperandBytes == { << 52, 18, 128 >> }

\* where the host points pc: the third byte from the end of the array, and
\* the first address past it
RunPcValues == {131069, 131072}

\* calls the host makes in a run
MaxSteps == 4

\* cpu.memory.poke8(0x400, ...) ... of test_cpu_fetch: the program image
RunImage(b, ops) ==
    poke_slice(poke_slice(CPU_new(MemoryDefault), WordFromU32(1024), << b >> \o ops),
               WordFromU32(131069), << b, ops[1], ops[2] >>)

InitRun ==
    /\ \E b \in LeadBytes : \E ops \in OperandBytes : cpu = RunImage(b, ops)
    /\ fetched = NoFetch
    /\ last = NoCall
    /\ history = << >>
    /\ n = [data |-> 0, call |-> 0, exec |-> 0, reset |-> 0, ops |-> 0]
    /\ bus = TestBus
    /\ written = << >>

NextRun ==
    \/ (last.op = "new" /\ \E w \in RunPcValues : SetReg("pc", w)
           /\ UNCHANGED << history, bus, written >>)
    \/ (n.ops < MaxSteps /\ Fetch /\ UNCHANGED << history, bus, written >>)
    \/ (n.ops < MaxSteps /\ fetched.kind = "Ok"
           /\ \E oc \in Builds(fetched.instruction) : Execute(fetched.instruction, oc)
           /\ UNCHANGED << history, bus, written >>)
    \/ (n.ops < MaxSteps /\ n.reset < MaxReset /\ Reset
           /\ UNCHANGED << history, bus, written >>)

SpecRun == InitRun /\ [][NextRun]_vars

\* ------------------------------------------------------------------------
\* SpecStack: the stack methods called in any order (test_cpu_stacks), on a
\* fresh machine or one whose dp or sp the test moved first.
\* ------------------------------------------------------------------------

\* where a test moves a stack pointer: dp six bytes below the end of the
\* array, sp six bytes above its start
StackStarts == { << "dp", 131066 >>, << "sp", 6 >> }

\* calls made on the stacks
MaxOps == 5

\* the calls remembered before `last`
HistoryLen == 3

\* `last` joins the remembered calls, the oldest leaves
Remember ==
    history' = LET h == Append(history, last)
               IN  IF Len(h) > HistoryLen THEN Tail(h) ELSE h

NextStack ==
    \/ (last.op = "new" /\ \E rw \in StackStarts : SetReg(rw[1], rw[2])
           /\ Remember /\ UNCHANGED << bus, written >>)
    \/ (n.ops < MaxOps /\ \E w \in PushWords : PushData(w)
           /\ Remember /\ UNCHANGED << bus, written >>)
    \/ (n.ops < MaxOps /\ \E w \in PushWords : PushCall(w)
           /\ Remember /\ UNCHANGED << bus, written >>)
    \/ (n.ops < MaxOps /\ PopData /\ Remember /\ UNCHANGED << bus, written >>)
    \/ (n.ops < MaxOps /\ PopCall /\ Remember /\ UNCHANGED << bus, written >>)

SpecStack == InitCPU /\ [][NextStack]_vars

\* ------------------------------------------------------------------------
\* SpecMem: peek, poke, peek24 and poke24 called on the machine's memory
\* (impl PeekPoke for CPU hands them to Memory) at addresses inside the
\* array, around its end and at the top of the 24-bit space.
\* ------------------------------------------------------------------------

\* addresses: 0, 10 (test_mem_word_fns), the last three bytes of the
\* array, the first address past it, the last Word
MemAddrs == {0, 10, 131069, 131070, 131071, 131072, 16777215}

\* bytes poked
MemBytes == {90, 165}

\* words poked: 0x123456 (test_mem_word_fns)
MemWords == {1193046}

\* calls made on the memory
MaxMemOps == 3

\* mem.poke8(addr, val)
Poke(addr, val) ==
    /\ ~cpu.panic
    /\ cpu' = poke8(cpu, addr, val)
    /\ last' = [op |-> "poke", addr |-> addr, val |-> val, panicked |-> cpu'.panic]
    /\ n' = [n EXCEPT !.ops = @ + 1]
    /\ UNCHANGED fetched

\* mem.peek8(addr)
Peek(addr) ==
    /\ ~cpu.panic
    /\ LET r == peek8(cpu, addr)
       IN  /\ cpu' = r.c
           /\ last' = [op |-> "peek", addr |-> addr, val |-> r.val, panicked |-> r.c.panic]
    /\ n' = [n EXCEPT !.ops = @ + 1]
    /\ UNCHANGED fetched

\* mem.poke24(addr, val)
Poke24(addr, val) ==
    /\ ~cpu.panic
    /\ cpu' = poke24(cpu, addr, val)
    /\ last' = [op |-> "poke24", addr |-> addr, val |-> val, panicked |-> cpu'.panic]
    /\ n' = [n EXCEPT !.ops = @ + 1]
    /\ UNCHANGED fetched

\* mem.peek24(addr)
Peek24(addr) ==
    /\ ~cpu.panic
    /\ LET r == peek24(cpu, addr)
       IN  /\ cpu' = r.c
           /\ last' = [op |-> "peek24", addr |-> addr, val |-> r.val, panicked |-> r.c.panic]
    /\ n' = [n EXCEPT !.ops = @ + 1]
    /\ UNCHANGED fetched

NextMem ==
    \/ (n.ops < MaxMemOps /\ \E a \in MemAddrs : \E v \in MemBytes : Poke(a, v)
           /\ Remember /\ UNCHANGED << bus, written >>)
    \/ (n.ops < MaxMemOps /\ \E a \in MemAddrs : Peek(a)
           /\ Remember /\ UNCHANGED << bus, written >>)
    \/ (n.ops < MaxMemOps /\ \E a \in MemAddrs : \E w \in MemWords : Poke24(a, w)
           /\ Remember /\ UNCHANGED << bus, written >>)
    \/ (n.ops < MaxMemOps /\ \E a \in MemAddrs : Peek24(a)
           /\ Remember /\ UNCHANGED << bus, written >>)

SpecMem == InitCPU /\ [][NextMem]_vars

\* ------------------------------------------------------------------------
\* SpecBus: peek8 and poke8 called on a composed bus (test_poke_peek)
\* ------------------------------------------------------------------------

\* [0u8; 10]
Zeros == [i \in 1..10 |-> 0]

\* [9u8; 10]
Nines == [i \in 1..10 |-> 9]

\* an entry whose range 2..4 overlaps the range 3..6 of the entry in its rest
OverlapBus ==
    Bus_new(2, 4, ArrayDevice(Zeros), Bus_new(3, 6, ArrayDevice(Nines), ArrayDevice(Zeros)))

\* the buses composed
Buses == {TestBus, OverlapBus}

\* bus addresses: below, inside and above the ranges, and past the arrays
BusAddrs == {0, 2, 3, 4, 5, 6, 7, 10, 11}

\* bytes poked
BusBytes == {1, 2}

\* calls made on the bus
MaxBusOps == 3

InitBus ==
    /\ cpu = CPU_new(MemoryDefault)
    /\ fetched = NoFetch
    /\ last = NoCall
    /\ history = << >>
    /\ n = [data |-> 0, call |-> 0, exec |-> 0, reset |-> 0, ops |-> 0]
    /\ bus \in Buses
    /\ written = << >>

\* bus.poke8(addr, val)
BusPoke(addr, val) ==
    /\ last.op # "panic"
    /\ LET r == bus_poke(bus, addr, val)
       IN  /\ bus' = r.d
           /\ last' = IF r.panic THEN Panicked("bus_poke")
                      ELSE [op |-> "bus_poke", addr |-> addr, val |-> val, pre |-> bus]
           /\ written' = IF r.panic THEN written
                         ELSE [a \in DOMAIN written \cup {addr} |->
                                  IF a = addr THEN val ELSE written[a]]
    /\ n' = [n EXCEPT !.ops = @ + 1]
    /\ UNCHANGED << cpu, fetched, history >>

\* bus.peek8(addr)
BusPeek(addr) ==
    /\ last.op # "panic"
    /\ LET r == bus_peek(bus, addr)
       IN  last' = IF r.panic THEN Panicked("bus_peek")
                   ELSE [op |-> "bus_peek", addr |-> addr, val |-> r.val, pre |-> bus]
    /\ n' = [n EXCEPT !.ops = @ + 1]
    /\ UNCHANGED << cpu, fetched, history, bus, written >>

NextBus ==
    \/ (n.ops < MaxBusOps /\ \E a \in BusAddrs : \E v \in BusBytes : BusPoke(a, v))
    \/ (n.ops < MaxBusOps /\ \E a \in BusAddrs : BusPeek(a))

SpecBus == InitBus /\ [][NextBus]_vars

\* ------------------------------------------------------------------------
\* SpecTick: tick and reset called on a bus of TestDevices (test_tick,
\* test_reset)
\* ------------------------------------------------------------------------

\* the bus of test_tick
TickBus == Bus_at(5, TestDevice(5), Bus_at(6, TestDevice(6), TestDevice(7)))

\* the bus of test_reset
ResetBus == Bus_at(5, TestDevice(5), TestDevice(6))

\* a bus whose own device is a bus in turn
NestedBus == Bus_at(5, Bus_at(6, TestDevice(5), TestDevice(6)), TestDevice(7))

\* a bus whose last device is two ticks short of what an i32 counts
EdgeBus == Bus_at(5, TestDevice(5), Bus_at(6, TestDevice(6), TestDevice(I32_MAX - 2)))

\* the buses ticked
TickBuses == {TickBus, ResetBus, NestedBus, EdgeBus}

\* calls of tick and reset the host makes
MaxTicks == 8

InitTick ==
    /\ cpu = CPU_new(MemoryDefault)
    /\ fetched = NoFetch
    /\ last = NoCall
    /\ bus \in TickBuses
    /\ history = << [op |-> "built", bus |-> bus] >>
    /\ n = [data |-> 0, call |-> 0, exec |-> 0, reset |-> 0, ops |-> 0, ticks |-> 0]
    /\ written = << >>

\* bus.tick() in a build with overflow checks (oc) or without; n.ticks
\* counts the ticks since the bus was built or last reset
BusTick(oc) ==
    /\ last.op # "panic"
    /\ LET r == bus_tick(bus, << >>, oc)
       IN  /\ bus' = r.d
           /\ last' = IF r.panic THEN Panicked("bus_tick")
                      ELSE [op |-> "bus_tick", order |-> r.order, pre |-> bus]
           /\ n' = IF r.panic THEN [n EXCEPT !.ops = @ + 1]
                   ELSE [n EXCEPT !.ticks = @ + 1, !.ops = @ + 1]
    /\ UNCHANGED << cpu, fetched, history, written >>

\* bus.reset()
BusReset ==
    /\ last.op # "panic"
    /\ LET r == bus_reset(bus, << >>)
       IN  /\ bus' = r.d
           /\ last' = [op |-> "bus_reset", order |-> r.order, pre |-> bus]
    /\ n' = [n EXCEPT !.ticks = 0, !.reset = @ + 1, !.ops = @ + 1]
    /\ UNCHANGED << cpu, fetched, history, written >>

NextTick ==
    \/ (n.ops < MaxTicks /\ \E oc \in BOOLEAN : BusTick(oc))
    \/ (n.ops < MaxTicks /\ BusReset)

SpecTick == InitTick /\ [][NextTick]_vars

\* ------------------------------------------------------------------------
\* SpecPair: the unit tests' harness carried one instruction further.  A
\* fresh CPU, pc set or left, words pushed onto the data stack, then up to
\* MaxPairExec instructions handed to execute one after the other, each
\* returned pc stored (Call then Ret, Storew then Loadw).
\* ------------------------------------------------------------------------

\* words the host pushes: 0x112233 and 2048 (test_memory), 100
PairWords == {1122867, 2048, 100}

\* two-byte immediates: 2048 (test_memory) and 256, the address of the
\* bottom cell of the data stack
PairImmediates == {2048, 256}

\* the instructions executed: calls, returns, stores and loads
PairInstructions ==
    { [opcode |-> o, arg |-> None, length |-> 1] :
          o \in {"Call", "Ret", "Storew", "Loadw", "Store"} }
    \cup { [opcode |-> o, arg |-> Some(a), length |-> 3] :
               o \in {"Call", "Ret", "Storew", "Loadw", "Store"}, a \in PairImmediates }

\* pushes the host makes before the first instruction
MaxPairData == 2

\* instructions the host executes
MaxPairExec == 2

NextPair ==
    \/ (last.op = "new" /\ \E w \in PcValues : SetReg("pc", w)
           /\ Remember /\ UNCHANGED << bus, written >>)
    \/ (n.data < MaxPairData /\ n.exec = 0
           /\ \E w \in PairWords : PushData(w)
           /\ Remember /\ UNCHANGED << bus, written >>)
    \/ (n.exec < MaxPairExec
           /\ \E i \in PairInstructions : Execute(i, TRUE)
           /\ Remember /\ UNCHANGED << bus, written >>)

SpecPair == InitCPU /\ [][NextPair]_vars

\* ------------------------------------------------------------------------
\* SpecProg: a host running a five-byte program placed at 1024 on a machine
\* fresh from CPU::new: fetch, execute of what was fetched with the
\* returned pc stored, and so on.
\* ------------------------------------------------------------------------

\* the programs: two instructions with a one-byte immediate and a last
\* byte.  05 08 05 0C 1D is among them, and so are the same program with
\* Nop (01) for the lead byte 05, with 0xff for the operand 0x0c, and with
\* Hlt (0x74) for the byte 0x1d.
Programs ==
    { << a, 8, b, c, h >> : a \in {1, 5}, b \in {1, 5}, c \in {12, 255}, h \in {29, 116} }

\* calls of fetch and execute the host makes
MaxProgSteps == 8

InitProg ==
    /\ \E prog \in Programs :
           cpu = poke_slice(CPU_new(MemoryDefault), WordFromU32(1024), prog)
    /\ fetched = NoFetch
    /\ last = NoCall
    /\ history = << >>
    /\ n = [data |-> 0, call |-> 0, exec |-> 0, reset |-> 0, ops |-> 0]
    /\ bus = TestBus
    /\ written = << >>

NextProg ==
    \/ (n.ops < MaxProgSteps /\ fetched.kind = "None" /\ Fetch
           /\ UNCHANGED << history, bus, written >>)
    \/ (n.ops < MaxProgSteps /\ fetched.kind = "Ok"
           /\ \E oc \in Builds(fetched.instruction) : Execute(fetched.instruction, oc)
           /\ UNCHANGED << history, bus, written >>)

SpecProg == InitProg /\ [][NextProg]_vars

\* ------------------------------------------------------------------------
\* SpecWord: the conversions of word.rs applied to host values (to_from_i32,
\* to_from_u8_3)
\* ------------------------------------------------------------------------

\* u32 values made into a Word: the powers of two up to 2^24 and their
\* predecessors, 0x123456 (to_from_u32), 0x030201
WordSamples ==
    { 2 ^ k : k \in 0..24 } \cup { (2 ^ k) - 1 : k \in 0..24 } \cup {1193046, 197121}

\* i32 values made into a Word: the same and their negatives, -555
\* (to_from_i32), and the first values outside [-2^23, 2^23)
IntSamples ==
    WordSamples \cup { -u : u \in WordSamples } \cup {-555, -8388609}

\* conversions the host makes
MaxWordOps == 2

\* Word::from(u).to_bytes(), and Word::from_bytes of the bytes
ToFromBytes(u) ==
    /\ last' = [op |-> "to_from_bytes", u |-> u, word |-> WordFromU32(u),
                bytes |-> to_bytes(WordFromU32(u)),
                back |-> from_bytes(to_bytes(WordFromU32(u)))]
    /\ n' = [n EXCEPT !.ops = @ + 1]
    /\ UNCHANGED << cpu, fetched, history, bus, written >>

\* i32::from(Word::from(i))
ToFromI32(i) ==
    /\ last' = [op |-> "to_from_i32", i |-> i, word |-> WordFromI32(i),
                back |-> I32FromWord(WordFromI32(i))]
    /\ n' = [n EXCEPT !.ops = @ + 1]
    /\ UNCHANGED << cpu, fetched, history, bus, written >>

\* operands of the Word operators: the ends of the range, the sign bit and
\* its neighbours, the operands of test_address_overflows, shift amounts
\* on both sides of 24 and of 32
OperandWords == {0, 1, 3, 10, 23, 24, 31, 32, 4097, 1193046, 8388607, 8388608,
                 16777210, 16777215}

\* signed host integers on the right of a Word: 10 (test_address_overflows),
\* negatives, values outside the 24-bit range
OperandInts == {0, 1, 10, -1, -10, 4097, -4097, 8388608, -8388609, 16777226,
                -16777226, 305419896}

\* host values made into a Word with From: u32 up to 0x11223344
\* (test_address_truncation), i32 of both signs, every u8 end, both bools
FromU32Samples == {0, 16777215, 16777216, 287454020}
FromI32Samples == {0, -1, -555, -8388609, -2147483647}
FromU8Samples == {0, 127, 255}

\* a op b for every operator of ops!(Word, u32) and -a; a division or a
\* shift that panics has no result
WordOperators(a, b, oc) ==
    /\ last' = [op |-> "word_ops", a |-> a, b |-> b, oc |-> oc,
                add |-> WordAdd(a, b), sub |-> WordSub(a, b), mul |-> WordMul(a, b),
                div |-> WordDiv(a, b), rem |-> WordRem(a, b),
                and |-> WordAnd(a, b), or |-> WordOr(a, b), xor |-> WordXor(a, b),
                shl |-> WordShl(a, b, oc), shr |-> WordShr(a, b, oc),
                neg |-> WordNeg(a)]
    /\ n' = [n EXCEPT !.ops = @ + 1]
    /\ UNCHANGED << cpu, fetched, history, bus, written >>

\* a op k for a signed host integer k (ops!(i32))
WordOperatorsI32(a, k) ==
    /\ last' = [op |-> "word_ops_i32", a |-> a, k |-> k,
                add |-> WordAddI32(a, k), sub |-> WordSubI32(a, k),
                mul |-> WordMulI32(a, k)]
    /\ n' = [n EXCEPT !.ops = @ + 1]
    /\ UNCHANGED << cpu, fetched, history, bus, written >>

\* Words on the left of an i8 or an i16: values on both sides of 2^7, 2^8,
\* 2^15 and 2^16, and the ends of the range
NarrowWords == {0, 1, 3, 127, 128, 255, 256, 4097, 32767, 32768, 65535, 65536,
                16777210, 16777215}

\* values of an i8 (and of an i16) on the right of a Word
NarrowInts == {0, 1, 10, -1, -10, 127, -128}

\* the widths of i8 and i16
NarrowWidths == {8, 16}

\* a op k for a signed host integer k of a narrow type (ops!(i8), ops!(i16))
WordOperatorsSigned(a, k, bits) ==
    /\ last' = [op |-> "word_ops_signed", a |-> a, k |-> k, bits |-> bits,
                add |-> WordAddSigned(a, k, bits), sub |-> WordSubSigned(a, k, bits),
                mul |-> WordMulSigned(a, k, bits)]
    /\ n' = [n EXCEPT !.ops = @ + 1]
    /\ UNCHANGED << cpu, fetched, history, bus, written >>

\* Word::from of a u32, an i32, a u8, a bool and three bytes
WordConstructors(u, i, b, f) ==
    /\ last' = [op |-> "word_from", u |-> u, i |-> i, b |-> b, f |-> f,
                from_u32 |-> WordFromU32(u), from_i32 |-> WordFromI32(i),
                from_u8 |-> WordFromU8(b), from_bool |-> WordFromBool(f),
                from_bytes |-> from_bytes(<< b, 255 - b, b >>)]
    /\ n' = [n EXCEPT !.ops = @ + 1]
    /\ UNCHANGED << cpu, fetched, history, bus, written >>

NextWord ==
    \/ (n.ops < MaxWordOps /\ \E u \in WordSamples : ToFromBytes(u))
    \/ (n.ops < MaxWordOps /\ \E i \in IntSamples : ToFromI32(i))
    \/ (n.ops < MaxWordOps /\ \E a \in OperandWords, b \in OperandWords, oc \in BOOLEAN :
            WordOperators(a, b, oc))
    \/ (n.ops < MaxWordOps /\ \E a \in OperandWords, k \in OperandInts :
            WordOperatorsI32(a, k))
    \/ (n.ops < MaxWordOps /\ \E a \in NarrowWords, k \in NarrowInts, bits \in NarrowWidths :
            WordOperatorsSigned(a, k, bits))
    \/ (n.ops < MaxWordOps
           /\ \E u \in FromU32Samples, i \in FromI32Samples, b \in FromU8Samples,
                 f \in BOOLEAN : WordConstructors(u, i, b, f))

SpecWord == InitCPU /\ [][NextWord]_vars

\* ------------------------------------------------------------------------
\* SpecShift: Lshift, Rshift and Arshift over values and shift amounts
\* (test_logic), in builds with and without overflow checks
\* ------------------------------------------------------------------------

\* words pushed as y or as x: shift amounts around 24 and around 32, values
\* with bit 23 clear and set (0x800010, 0x800000, 0xffffff), 0x123456
ShiftWords == {0, 1, 2, 5, 23, 24, 25, 31, 32, 33, 1193046, 8388608, 8388624,
               16777215}

\* shift amounts carried as an immediate, by their byte count
ShiftImmediates(k) ==
    CASE k = 1 -> {2, 23, 24, 32} [] k = 2 -> {2048} [] k = 3 -> {16777215}

\* the shift instructions fetch can decode
ShiftInstructions ==
    { [opcode |-> o, arg |-> None, length |-> 1] : o \in {"Lshift", "Rshift", "Arshift"} }
    \cup UNION { { [opcode |-> o, arg |-> Some(a), length |-> k + 1] :
                   o \in {"Lshift", "Rshift", "Arshift"}, a \in ShiftImmediates(k) } :
                 k \in 1..3 }

\* pushes the host makes before the shift
MaxShiftData == 2

NextShift ==
    \/ (n.data < MaxShiftData /\ n.exec = 0
           /\ \E w \in ShiftWords : PushData(w)
           /\ UNCHANGED << history, bus, written >>)
    \/ (n.exec = 0
           /\ \E i \in ShiftInstructions : \E oc \in Builds(i) : Execute(i, oc)
           /\ UNCHANGED << history, bus, written >>)

SpecShift == InitCPU /\ [][NextShift]_vars

\* ------------------------------------------------------------------------
\* SpecDisplay: a machine whose display was reset and whose screen, colour
\* plane and palette the guest has filled; the guest pokes the register
\* block and the host draws a frame
\* ------------------------------------------------------------------------

\* the scenes, by the byte of the first screen cell: scene k holds the
\* bytes k .. k + 63 (mod 256) on the first screen row, so the scenes
\* together show every colour byte; 224 is 0xE0
SceneKeys == {0, 64, 128, 192, 224}

\* the bytes the guest poked for scene k, by address: the first 64 cells
\* of the first screen row at 0x10000 and the first 8 of the second (128
\* bytes a row), the last cell, the same cells of the colour plane at
\* 0x14000, the palette entries 16 .. 31 (the reset fills 0 .. 15), and
\* four bytes of page zero
SceneBytes(k) ==
    LET screen == 65536
        plane == 65536 + 16384
        palette == 130816
        cells == 0..63 \cup 128..135 \cup {16383}
        at(a) == IF a >= palette THEN ((a - palette) * 5 + 3) % 256
                 ELSE IF a >= plane THEN (255 - (((a - plane) * 7) + k)) % 256
                 ELSE IF a >= screen THEN ((a - screen) + k) % 256
                 ELSE (a * 9 + 100) % 256
    IN  [a \in { screen + o : o \in cells } \cup { plane + o : o \in cells }
               \cup { palette + j : j \in 16..31 } \cup 1..4 |-> at(a)]

\* the machine of scene k
Scene(k) ==
    LET c == display_reset(CPU_new(MemoryDefault))
    IN  [c EXCEPT !.memory = MemSetAll(@, SceneBytes(k))]

\* the edges of the 4-, 8- and 16-pixel blocks at the origin of the frame
BlockEdges == {0, 3, 4, 7, 8, 15, 16}

\* the rows and the columns at the edges of the centred windows of 384 and
\* of 192 pixels, with the first and the last of the frame
WindowRows == {0, 47, 48, 50, 51, 143, 144, 431, 432, 479}
WindowCols == {0, 127, 128, 130, 131, 223, 224, 511, 512, 639}

\* the pixel indices held: the block edges, the window edges, the first
\* four pixels of the frame, and one pixel of each of the first 64 logical
\* pixels of the top row in the high-res and in the low-res geometry
SamplePixels ==
    { 640 * r + col : r \in BlockEdges, col \in BlockEdges }
    \cup { 640 * r + col : r \in WindowRows, col \in WindowCols }
    \cup 0..3
    \cup { 4 * x : x \in 0..63 }
    \cup { 640 * 48 + 128 + 3 * x : x \in 0..63 }

\* mode bytes the guest writes: the eight modes, and 11 (mode 3 with a bit
\* above the three set)
DisplayModes == 0..7 \cup {11}

\* words the guest writes into the register block, by their offset in it:
\* row_offset (16) and col_offset (19)
RegisterPokes == { << 16, 1 >>, << 19, 2 >>, << 19, 128 >> }

\* pokes of the register block before the frame is drawn
MaxDisplayPokes == 2

InitDisplay ==
    /\ \E k \in SceneKeys : cpu = Scene(k)
    /\ fetched = NoFetch
    /\ last = NoCall
    /\ history = << >>
    /\ n = [data |-> 0, call |-> 0, exec |-> 0, reset |-> 0, ops |-> 0]
    /\ bus = TestBus
    /\ written = << >>

\* the guest writes the mode byte: machine.poke(16, mode)
PokeMode(mode) ==
    /\ ~cpu.panic
    /\ cpu' = poke(cpu, WordFromI32(16), mode)
    /\ last' = [op |-> "poke_mode", mode |-> mode]
    /\ n' = [n EXCEPT !.data = @ + 1, !.ops = @ + 1]
    /\ UNCHANGED << fetched, history, bus, written >>

\* the guest writes a register of the block: machine.poke24(16 + offset, word)
PokeRegister(offset, word) ==
    /\ ~cpu.panic
    /\ cpu' = poke24(cpu, WordAddI32(WordFromI32(16), offset), word)
    /\ last' = [op |-> "poke_register", offset |-> offset, word |-> word]
    /\ n' = [n EXCEPT !.data = @ + 1, !.ops = @ + 1]
    /\ UNCHANGED << fetched, history, bus, written >>

\* display::reset(machine)
DisplayReset ==
    /\ ~cpu.panic
    /\ cpu' = display_reset(cpu)
    /\ last' = [op |-> "display_reset"]
    /\ n' = [n EXCEPT !.reset = @ + 1, !.ops = @ + 1]
    /\ UNCHANGED << fetched, history, bus, written >>

\* display::draw(machine, frame); the machine is only read
Draw ==
    /\ ~cpu.panic
    /\ \E d \in { draw(cpu, SamplePixels) } :
           /\ cpu' = IF d.panic THEN [cpu EXCEPT !.panic = TRUE] ELSE cpu
           /\ last' = IF d.panic THEN [op |-> "panic", in |-> "draw", reg |-> d.reg]
                      ELSE [op |-> "draw", reg |-> d.reg, frame |-> d.frame,
                            from |-> d.from, mem |-> cpu.memory]
    /\ n' = [n EXCEPT !.exec = @ + 1, !.ops = @ + 1]
    /\ UNCHANGED << fetched, history, bus, written >>

NextDisplay ==
    \/ (n.data < MaxDisplayPokes /\ n.exec = 0 /\ \E m \in DisplayModes : PokeMode(m))
    \/ (n.data < MaxDisplayPokes /\ n.exec = 0
           /\ \E p \in RegisterPokes : PokeRegister(p[1], p[2]))
    \/ (n.reset < MaxReset /\ n.data > 0 /\ n.exec = 0 /\ DisplayReset)
    \/ (n.exec = 0 /\ Draw)

SpecDisplay == InitDisplay /\ [][NextDisplay]_vars

\* ------------------------------------------------------------------------
\* SpecBlock: the guest writes any of the registers of the block at 16,
\* zero sizes and bases at the end of memory among them, and the host draws
\* a frame of the first scene.
\* ------------------------------------------------------------------------

\* words the guest writes into the register block, by their offset in it:
\* screen (1), palette (4) and font (7) set to the first address past the
\* array, height (10) and width (13) set to 0, the width halved, and a
\* screen base (0x1C001) one byte too high for 128 rows of 128 bytes with
\* a col_offset (19) of 1, which moves the last byte of a row from the last
\* logical column to the one before it
BlockPokes ==
    { << 1, 131072 >>, << 4, 131072 >>, << 7, 131072 >>,
      << 10, 0 >>, << 13, 0 >>, << 13, 64 >>, << 1, 114689 >>, << 19, 1 >> }

\* the mode bytes of the eight modes
BlockModes == 0..7

\* pokes of the register block before the frame is drawn
MaxBlockPokes == 2

InitBlock ==
    /\ cpu = Scene(0)
    /\ fetched = NoFetch
    /\ last = NoCall
    /\ history = << >>
    /\ n = [data |-> 0, call |-> 0, exec |-> 0, reset |-> 0, ops |-> 0]
    /\ bus = TestBus
    /\ written = << >>

NextBlock ==
    \/ (n.data < MaxBlockPokes /\ n.exec = 0 /\ \E m \in BlockModes : PokeMode(m))
    \/ (n.data < MaxBlockPokes /\ n.exec = 0
           /\ \E p \in BlockPokes : PokeRegister(p[1], p[2]))
    \/ (n.exec = 0 /\ Draw)

SpecBlock == InitBlock /\ [][NextBlock]_vars

\* ------------------------------------------------------------------------
\* SpecSeq: the stack methods and instructions without an immediate, up to
\* MaxSeqOps of them one after the other on a fresh machine (the tests'
\* call_stack_opcode_test pushes onto both stacks before it executes), or
\* on one whose sp the test first moved down next to the data stack.
\* ------------------------------------------------------------------------

\* where a test moves sp: one cell above the bottom of the data stack, and
\* one byte further up
SeqStarts == { << "sp", 259 >>, << "sp", 260 >> }

\* the word pushed onto the data stack (0x112233), and onto the call stack
SeqDataWords == {1122867}
SeqCallWords == {123}

\* the instructions executed: those that leave the stacks alone, and those
\* that work on the call stack
SeqInstructions ==
    { [opcode |-> o, arg |-> None, length |-> 1] :
          o \in {"Nop", "Rand", "Debug", "Inton", "Intoff", "Hlt", "Setiv",
                 "Pushr", "Popr", "Peekr", "Call", "Ret"} }

\* calls made on the machine
MaxSeqOps == 4

NextSeq ==
    \/ (last.op = "new" /\ \E rw \in SeqStarts : SetReg(rw[1], rw[2])
           /\ Remember /\ UNCHANGED << bus, written >>)
    \/ (n.ops < MaxSeqOps /\ \E w \in SeqDataWords : PushData(w)
           /\ Remember /\ UNCHANGED << bus, written >>)
    \/ (n.ops < MaxSeqOps /\ \E w \in SeqCallWords : PushCall(w)
           /\ Remember /\ UNCHANGED << bus, written >>)
    \/ (n.ops < MaxSeqOps /\ PopData /\ Remember /\ UNCHANGED << bus, written >>)
    \/ (n.ops < MaxSeqOps /\ PopCall /\ Remember /\ UNCHANGED << bus, written >>)
    \/ (n.ops < MaxSeqOps /\ \E i \in SeqInstructions : Execute(i, TRUE)
           /\ Remember /\ UNCHANGED << bus, written >>)

SpecSeq == InitCPU /\ [][NextSeq]_vars

\* ------------------------------------------------------------------------
\* SpecFill: a Memory made by default or from a byte source, as main does
\* (`let memory = Memory::from(rng); let cpu = CPU::new(memory)`), then read
\* at addresses inside the array, around its end and beyond it.
\* ------------------------------------------------------------------------

\* byte sources: constant ones (one of them all zero) and counting ones
Sources ==
    { [initial |-> 0, increment |-> 0], [initial |-> 7, increment |-> 0],
      [initial |-> 255, increment |-> 0], [initial |-> 0, increment |-> 1],
      [initial |-> 1, increment |-> 2], [initial |-> 90, increment |-> 3] }

\* calls made: the construction and the reads after it
MaxFillOps == 3

\* CPU::new(Memory::from(rng))
MemoryFrom(rng) ==
    /\ cpu' = CPU_new(Memory_from(rng))
    /\ last' = [op |-> "from", rng |-> rng]
    /\ n' = [n EXCEPT !.ops = @ + 1]
    /\ UNCHANGED fetched

\* CPU::new(Memory::default())
MemoryByDefault ==
    /\ cpu' = CPU_new(MemoryDefault)
    /\ last' = [op |-> "default"]
    /\ n' = [n EXCEPT !.ops = @ + 1]
    /\ UNCHANGED fetched

NextFill ==
    \/ (n.ops = 0 /\ \E rng \in Sources : MemoryFrom(rng)
           /\ UNCHANGED << history, bus, written >>)
    \/ (n.ops = 0 /\ MemoryByDefault /\ UNCHANGED << history, bus, written >>)
    \/ (n.ops \in 1 .. MaxFillOps - 1 /\ \E a \in MemAddrs : Peek(a)
           /\ UNCHANGED << history, bus, written >>)
    \/ (n.ops \in 1 .. MaxFillOps - 1 /\ \E a \in MemAddrs : Peek24(a)
           /\ UNCHANGED << history, bus, written >>)

SpecFill == InitCPU /\ [][NextFill]_vars

\* ------------------------------------------------------------------------
\* Properties
\* ------------------------------------------------------------------------

\* the word a binary instruction that pushes nothing popped second (y):
\* the pops leave its bytes in place, at the dp they end on
PoppedY == peek24(cpu, cpu.dp).val

\* the last call was execute, of a jump or of a branch that was taken
Jumped ==
    /\ last.op = "execute"
    /\ \/ last.instruction.opcode \in {"Jmp", "Jmpr", "Call", "Ret"}
       \/ last.instruction.opcode = "Brz" /\ PoppedY = 0
       \/ last.instruction.opcode = "Brnz" /\ PoppedY # 0

\* C3: every instruction that is not a jump or a taken branch leaves
\* pc = (pc + length) mod 2^24, length in 1..4, whatever the opcode and the
\* data stack hold (Setsdp and branches not taken included).
C3_PcAdvancesByLength ==
    (last.op = "execute" /\ ~Jumped) =>
        /\ last.instruction.length \in 1..4
        /\ last.new_pc = (last.pre.pc + last.instruction.length) % WORD_MOD
        /\ cpu.pc = last.new_pc

\* C3 witness: Setsdp with a 3-byte immediate executed at pc = 0xfffffd,
\* so that pc + 4 wraps to 1
C3_Witness ==
    /\ last.op = "execute"
    /\ last.instruction.opcode = "Setsdp"
    /\ last.instruction.length = 4
    /\ last.pre.pc = 16777213
    /\ cpu.pc = 1

\* the register values CPU::new and reset give
ResetRegs ==
    [ pc |-> 1024, dp |-> 256, sp |-> 1024, iv |-> 1024,
      int_enabled |-> FALSE, halted |-> TRUE ]

\* C1: after any pushes, executed instruction and register change, reset
\* leaves (pc, dp, sp, iv, int_enabled, halted) =
\* (1024, 256, 1024, 1024, false, true), and CPU::new gives the same values.
C1_ResetRegisters ==
    (last.op \in {"reset", "new"}) => regs(cpu) = ResetRegs

\* C1 witness: reset called on a machine whose pc, dp, sp and iv all
\* differ from the defaults (Setiv after pushes, pc set by the host)
C1_Witness ==
    /\ last.op = "reset"
    /\ last.pre.pc # 1024 /\ last.pre.dp # 256
    /\ last.pre.sp # 1024 /\ last.pre.iv # 1024
    /\ regs(cpu) = ResetRegs

\* the machine on which the last fetch or execute was called
PreCPU ==
    [ memory |-> last.mem, pc |-> last.pre.pc, dp |-> last.pre.dp,
      sp |-> last.pre.sp, iv |-> last.pre.iv,
      int_enabled |-> last.pre.int_enabled, halted |-> last.pre.halted,
      panic |-> FALSE ]

\* C2 as stated: when halted is true, a step (fetch, then execute of the
\* fetched instruction) changes no register and no memory byte.
C2_HaltedStepIsNoOp ==
    (last.op = "execute" /\ last.pre.halted) =>
        /\ regs(cpu) = last.pre
        /\ cpu.memory = last.mem

\* C2 amended: when halted is true, fetch changes no register and no memory
\* byte; execute is not gated on halted: it changes pc, dp, sp, iv,
\* int_enabled and memory exactly as it does when halted is false, and it
\* leaves halted true.
C2_ExecuteIgnoresHalted ==
    /\ (last.op = "fetch" /\ last.pre.halted) =>
           /\ regs(cpu) = last.pre
           /\ cpu.memory = last.mem
    /\ (last.op = "execute" /\ last.pre.halted) =>
           LET r == execute([PreCPU EXCEPT !.halted = FALSE], last.instruction, last.oc)
           IN  /\ ~r.c.panic
               /\ cpu.memory = r.c.memory
               /\ cpu.pc = r.pc
               /\ cpu.dp = r.c.dp /\ cpu.sp = r.c.sp /\ cpu.iv = r.c.iv
               /\ cpu.int_enabled = r.c.int_enabled
               /\ cpu.halted

\* C2 witness: a fetched instruction executed on a halted machine moved pc
\* and dp and wrote memory
C2_Witness ==
    /\ last.op = "execute"
    /\ last.pre.halted
    /\ n.ops = 2
    /\ cpu.pc # last.pre.pc
    /\ cpu.dp # last.pre.dp
    /\ cpu.memory # last.mem

\* the lead byte the last fetch read
LeadByte == MemGet(last.mem, last.pre.pc)

\* the byte k places after the lead byte of the last fetch
OperandByte(k) == MemGet(last.mem, (last.pre.pc + k) % WORD_MOD)

\* the opcode numbering of the specification, section 6: 0 Nop .. 42 Debug
OpcodeNumbering ==
    << "Nop", "Add", "Sub", "Mul", "Div", "Mod", "Rand", "And", "Or", "Xor",
       "Not", "Gt", "Lt", "Agt", "Alt", "Lshift", "Rshift", "Arshift", "Pop",
       "Dup", "Swap", "Pick", "Rot", "Jmp", "Jmpr", "Call", "Ret", "Brz",
       "Brnz", "Hlt", "Load", "Loadw", "Store", "Storew", "Inton", "Intoff",
       "Setiv", "Sdp", "Setsdp", "Pushr", "Popr", "Peekr", "Debug" >>

\* C4: for a lead byte b at pc with b >> 2 in 0..42, fetch returns the opcode
\* numbered b >> 2, length 1 + (b & 3) and, when b & 3 is not zero, the
\* little-endian value of the b & 3 bytes after pc as the immediate; no
\* immediate when b & 3 is zero.
C4_FetchDecodes ==
    (last.op = "fetch" /\ LeadByte \div 4 \in 0..42) =>
        LET k == LeadByte % 4
            r == last.result
        IN  /\ r.kind = "Ok"
            /\ r.instruction.opcode = OpcodeNumbering[(LeadByte \div 4) + 1]
            /\ r.instruction.length = 1 + k
            /\ (k = 0) => r.instruction.arg = None
            /\ (k # 0) =>
                   r.instruction.arg =
                       Some((IF k >= 1 THEN OperandByte(1) ELSE 0)
                            + (IF k >= 2 THEN 256 * OperandByte(2) ELSE 0)
                            + (IF k >= 3 THEN 65536 * OperandByte(3) ELSE 0))

\* C4 witness: the lead byte 0xab (Debug, three operand bytes) decoded with
\* the immediate 0x801234
C4_Witness ==
    /\ last.op = "fetch"
    /\ LeadByte = 171
    /\ last.result.kind = "Ok"
    /\ last.result.instruction = [opcode |-> "Debug", arg |-> Some(8393268), length |-> 4]

\* C5: for a lead byte whose field byte >> 2 is in 43..63, fetch returns
\* the error InvalidOpcode carrying that field and leaves every register and
\* every memory byte unchanged.
C5_InvalidOpcode ==
    (last.op = "fetch" /\ LeadByte \div 4 \in 43..63) =>
        /\ last.result = [kind |-> "Err", InvalidOpcode |-> LeadByte \div 4]
        /\ regs(cpu) = last.pre
        /\ cpu.memory = last.mem

\* C5 witness: the lead byte 0xfc fetched, InvalidOpcode(0x3f) returned
C5_Witness ==
    /\ last.op = "fetch"
    /\ LeadByte = 252
    /\ last.result.kind = "Err"
    /\ last.result.InvalidOpcode = 63

\* the k-th of the three calls before `last`
Before(k) == history[(Len(history) - 3) + k]

\* the last four calls were two of `push` and then two of `pop`
LastFour(push, pop) ==
    /\ Len(history) >= 3
    /\ Before(1).op = push /\ Before(2).op = push
    /\ Before(3).op = pop /\ last.op = pop

\* C6: both stacks are LIFO.  After push_data(x); push_data(y) two calls of
\* pop_data return y, then x, and dp is back where it started, having gone
\* up by 3 per push; after push_call(x); push_call(y) two calls of pop_call
\* return y, then x, and sp is back where it started, having gone down by 3
\* per push.
C6_StacksAreLIFO ==
    /\ LastFour("push_data", "pop_data") =>
           /\ Before(3).val = Before(2).word
           /\ last.val = Before(1).word
           /\ Before(2).pre.dp = (Before(1).pre.dp + 3) % WORD_MOD
           /\ Before(3).pre.dp = (Before(1).pre.dp + 6) % WORD_MOD
           /\ cpu.dp = Before(1).pre.dp
    /\ LastFour("push_call", "pop_call") =>
           /\ Before(3).val = Before(2).word
           /\ last.val = Before(1).word
           /\ Before(2).pre.sp = (Before(1).pre.sp - 3) % WORD_MOD
           /\ Before(3).pre.sp = (Before(1).pre.sp - 6) % WORD_MOD
           /\ cpu.sp = Before(1).pre.sp

\* C6 witness: 5 and 0xfffffd pushed at dp = 0x1fffa (the top of the array),
\* popped again, 5 coming last
C6_Witness ==
    /\ LastFour("push_data", "pop_data")
    /\ Before(1).pre.dp = 131066
    /\ Before(1).word = 5 /\ Before(2).word = 16777213
    /\ last.val = 5
    /\ cpu.dp = 131066

\* C7: peek and poke never fault; for every Word address a they reach the
\* byte at offset a mod 2^17, and poke(a, v) followed by peek(a) returns v.
C7_MemoryNeverFaults ==
    /\ (last.op \in {"peek", "poke"}) =>
           /\ ~last.panicked
           /\ MemGet(cpu.memory, last.addr % MEM_SIZE) = last.val
    /\ (last.op = "peek" /\ Len(history) > 0
          /\ history[Len(history)].op = "poke"
          /\ history[Len(history)].addr = last.addr) =>
           last.val = history[Len(history)].val

\* C8: poke24(a, w) writes the three bytes of w little-endian at a, a+1,
\* a+2, the addresses advancing through the modular address space; then
\* peek24(a) = w and peek24(a+1) is w without its low byte, the byte at a+3
\* on top.
C8_Poke24ThenPeek24 ==
    (last.op = "poke24") =>
        LET a == last.addr
            w == last.val
            at(k) == MemGet(cpu.memory, ((a + k) % WORD_MOD) % MEM_SIZE)
            r0 == peek24(cpu, a)
            r1 == peek24(cpu, WordAddI32(a, 1))
        IN  /\ ~last.panicked
            /\ << at(0), at(1), at(2) >> = to_bytes(w)
            /\ ~r0.c.panic /\ r0.val = w
            /\ ~r1.c.panic /\ r1.val = (w \div 256) + 65536 * at(3)

\* an address inside the range of a bus entry
InRange(b, a) == b.start <= a /\ a <= b.end

\* a device with the byte at one of its addresses replaced
ByteWritten(d, a, v) ==
    IF d.kind = "ArrayDevice" THEN [d EXCEPT !.bytes[a + 1] = v]
    ELSE bus_poke(d, a, v).d

\* C9: for an entry (start, end, device, rest), poke(a, v) with
\* start <= a <= end changes the device only, at a - start; otherwise it
\* changes rest only, at a; peek(a) returns the byte last poked at a.
C9_BusDispatch ==
    /\ (last.op = "bus_poke") =>
           IF InRange(last.pre, last.addr)
           THEN /\ bus.rest = last.pre.rest
                /\ bus.device =
                       ByteWritten(last.pre.device, last.addr - last.pre.start, last.val)
           ELSE /\ bus.device = last.pre.device
                /\ bus.rest = ByteWritten(last.pre.rest, last.addr, last.val)
    /\ (last.op = "bus_peek" /\ last.addr \in DOMAIN written) =>
           last.val = written[last.addr]

\* C9 witness: after poke8(2, 1) and poke8(6, 2) on the bus of
\* test_poke_peek, peek8(6) returns 2; index 1 of the device holds the 2 and
\* index 2 of rest the 1
C9_Witness ==
    /\ last.op = "bus_peek" /\ last.addr = 6 /\ last.val = 2
    /\ bus.rest.kind = "ArrayDevice"
    /\ bus.device.bytes[2] = 2 /\ bus.device.bytes[3] = 0
    /\ bus.rest.bytes[3] = 1 /\ bus.rest.bytes[2] = 0
    /\ written = (2 :> 1) @@ (6 :> 2)

\* an address in the range of an entry and in the range of the entry
\* nested in its rest
Shadowed(b, a) == InRange(b, a) /\ b.rest.kind = "Bus" /\ InRange(b.rest, a)

\* C10: when the range of an entry overlaps the range of an entry nested in
\* its rest, a peek or poke of an address in the overlap reaches the outer
\* entry's device only; the nested device is neither read nor written.
C10_OuterEntryShadows ==
    /\ (last.op = "bus_poke" /\ Shadowed(last.pre, last.addr)) =>
           /\ bus.rest = last.pre.rest
           /\ bus.device.bytes[(last.addr - last.pre.start) + 1] = last.val
    /\ (last.op = "bus_peek" /\ Shadowed(last.pre, last.addr)) =>
           last.val = last.pre.device.bytes[(last.addr - last.pre.start) + 1]

\* C10 witness: address 4 lies in 2..4 and in 3..6; after poke8(4, 1) the
\* peek8(4) returns the 1 from the outer device, the nested device still
\* holding its 9s
C10_Witness ==
    /\ last.op = "bus_peek" /\ last.addr = 4 /\ last.val = 1
    /\ Shadowed(bus, 4)
    /\ bus.device.bytes[3] = 1
    /\ bus.rest.device.bytes = Nines

RECURSIVE DevicePaths(_, _)
\* the devices of a composition, an entry's own device before the devices
\* in its rest, each named by its path of fields
DevicePaths(b, path) ==
    IF b.kind = "Bus"
    THEN DevicePaths(b.device, Append(path, "device"))
         \o DevicePaths(b.rest, Append(path, "rest"))
    ELSE << path >>

RECURSIVE DeviceAt(_, _)
\* the device a path of fields leads to
DeviceAt(b, path) ==
    IF path = << >> THEN b ELSE DeviceAt(b[Head(path)], Tail(path))

\* the counters of the devices of a composition, in composition order
Counters(b) ==
    [k \in 1..Len(DevicePaths(b, << >>)) |-> DeviceAt(b, DevicePaths(b, << >>)[k]).count]

\* a counter and k ticks more, k from 0 to MaxTicks + 1, as an i32 that
\* wraps counts them
TicksOn(count, k) ==
    IF count > I32_MAX - k THEN ((count - I32_MAX) + k - 2) - I32_MAX ELSE count + k

\* C11: one tick of a composed bus that returns delivers exactly one tick
\* to every device, an entry's own device before the devices in its rest,
\* so after n ticks every device has received exactly n ticks; one reset of
\* the bus resets every device, in the same order.
C11_TickAndResetCascade ==
    /\ (last.op \in {"bus_tick", "bus_reset"}) =>
           last.order = DevicePaths(last.pre, << >>)
    /\ (last.op = "bus_tick") =>
           Counters(bus) =
               [k \in DOMAIN Counters(last.pre) |-> TicksOn(Counters(last.pre)[k], 1)]
    /\ (last.op = "bus_reset") =>
           Counters(bus) = [k \in DOMAIN Counters(last.pre) |-> 10]
    /\ (last.op # "panic") =>
           Counters(bus) =
               [k \in DOMAIN Counters(bus) |->
                   TicksOn(IF n.reset = 0 THEN Counters(history[1].bus)[k] ELSE 10,
                           n.ticks)]

\* C11 witness: the bus of test_tick after five ticks holds 10, 11 and 12,
\* the entry's device ticked first and the innermost rest last
C11_Witness ==
    /\ last.op = "bus_tick"
    /\ n.ticks = 5 /\ n.reset = 0
    /\ bus.rest.kind = "Bus"
    /\ bus.device.count = 10 /\ bus.rest.device.count = 11 /\ bus.rest.rest.count = 12
    /\ last.order = << << "device" >>, << "rest", "device" >>, << "rest", "rest" >> >>

\* the word whose low byte lies at an address of a memory, little-endian
WordAt(m, a) ==
    MemGet(m, a % WORD_MOD) + 256 * MemGet(m, (a + 1) % WORD_MOD)
        + 65536 * MemGet(m, (a + 2) % WORD_MOD)

\* 3 when the last instruction carried an immediate, which execute pushes
\* before anything else, and 0 when it carried none
ArgBytes == IF last.instruction.arg.some THEN 3 ELSE 0

\* dp when the last instruction's own pops and pushes began
Dp0 == (last.pre.dp + ArgBytes) % WORD_MOD

\* x, the top of the data stack the last instruction popped first: its
\* immediate, or else the word below dp
TopX == IF last.instruction.arg.some THEN last.instruction.arg.val
        ELSE WordAt(last.mem, last.pre.dp - 3)

\* y, the word below x
BelowY == IF last.instruction.arg.some THEN WordAt(last.mem, last.pre.dp - 3)
          ELSE WordAt(last.mem, last.pre.dp - 6)

\* bit i of a non-negative integer
Bit(v, i) == (v \div (2 ^ i)) % 2

RECURSIVE ShiftAddProduct(_, _, _)
\* (y * x) mod 2^24 by shift and add over the bits of x from bit i up
ShiftAddProduct(y, x, i) ==
    IF i = 24 THEN 0
    ELSE (Bit(x, i) * ((y % (2 ^ (24 - i))) * (2 ^ i)) + ShiftAddProduct(y, x, i + 1))
             % WORD_MOD

\* the word the last instruction left on top of the data stack
Pushed == WordAt(cpu.memory, cpu.dp - 3)

\* C12: every binary opcode pops x (the top) and then y (the word below
\* it).  Sub pushes (y - x) mod 2^24, Div the unsigned quotient floor(y / x)
\* and Mod the unsigned remainder y mod x for x # 0, Add and Mul (y + x) and
\* (y * x) mod 2^24, And, Or and Xor the bitwise result; each of these
\* leaves dp 3 lower than it was before the instruction's pops.
C12_BinaryArithmetic ==
    (last.op = "execute"
       /\ last.instruction.opcode \in {"Add", "Sub", "Mul", "Div", "Mod", "And", "Or", "Xor"}) =>
        LET op == last.instruction.opcode
            x == TopX
            y == BelowY
        IN  /\ cpu.dp = (Dp0 - 3) % WORD_MOD
            /\ op = "Add" => Pushed = (y + x) % WORD_MOD
            /\ op = "Sub" => Pushed = (y - x) % WORD_MOD
            /\ op = "Mul" => Pushed = ShiftAddProduct(y, x, 0)
            /\ op = "Div" => x # 0 /\ Pushed = y \div x
            /\ op = "Mod" => x # 0 /\ Pushed = y % x
            /\ op = "And" => \A i \in 0..23 : Bit(Pushed, i) = Bit(y, i) * Bit(x, i)
            /\ op = "Or" => \A i \in 0..23 :
                   Bit(Pushed, i) = IF Bit(y, i) + Bit(x, i) > 0 THEN 1 ELSE 0
            /\ op = "Xor" => \A i \in 0..23 : Bit(Pushed, i) = (Bit(y, i) + Bit(x, i)) % 2

\* C12 witness: Sub executed with 5 below 0xfffffd on the stack pushed
\* 5 - 0xfffffd = 8 (mod 2^24) and left one word where there were two
C12_Witness ==
    /\ last.op = "execute"
    /\ last.instruction = [opcode |-> "Sub", arg |-> None, length |-> 1]
    /\ TopX = 16777213 /\ BelowY = 5
    /\ last.pre.dp = 262
    /\ cpu.dp = 259
    /\ Pushed = 8

\* the 24-bit two's-complement value of a word
Signed(x) == IF x >= 8388608 THEN x - 16777216 ELSE x

\* C13: Brz and Brnz pop the offset x (top) and the condition y (below it).
\* Brz yields next pc = (pc + signed(x)) mod 2^24 when y = 0 and pc + length
\* otherwise; Brnz yields (pc + signed(x)) mod 2^24 when y # 0 and
\* pc + length otherwise (pc being a Word, also modulo 2^24); both words
\* are consumed whether or not the branch is taken.
C13_Branches ==
    (last.op = "execute" /\ last.instruction.opcode \in {"Brz", "Brnz"}) =>
        LET taken == IF last.instruction.opcode = "Brz" THEN BelowY = 0 ELSE BelowY # 0
        IN  /\ cpu.dp = (Dp0 - 6) % WORD_MOD
            /\ cpu.pc = last.new_pc
            /\ taken => last.new_pc = (last.pre.pc + Signed(TopX)) % WORD_MOD
            /\ ~taken => last.new_pc = (last.pre.pc + last.instruction.length) % WORD_MOD
            /\ cpu.memory = (IF last.instruction.arg.some
                             THEN poke24(PreCPU, last.pre.dp, last.instruction.arg.val).memory
                             ELSE last.mem)

\* C13 witness: Brnz at pc = 1024 with the condition 5 and the offset -3
\* went back to 1021, both words gone from the stack
C13_Witness ==
    /\ last.op = "execute"
    /\ last.instruction = [opcode |-> "Brnz", arg |-> None, length |-> 1]
    /\ BelowY = 5 /\ TopX = 16777213
    /\ last.pre.pc = 1024 /\ last.pre.dp = 262
    /\ cpu.pc = 1021
    /\ cpu.dp = 256

\* the call before `last`
Previous == history[Len(history)]

\* the last two calls were execute of `first` and then execute of `second`
LastTwo(first, second) ==
    /\ last.op = "execute" /\ last.instruction.opcode = second
    /\ Len(history) > 0
    /\ Previous.op = "execute" /\ Previous.instruction.opcode = first

\* C14: Call pops the target x, pushes pc + length onto the call stack (sp
\* decreases by 3) and sets pc to x; a following Ret pops that word, so
\* after Call then Ret the pc equals the Call's pc + length and sp equals
\* its value before the Call.
C14_CallThenRet ==
    /\ (last.op = "execute" /\ last.instruction.opcode = "Call") =>
           /\ cpu.dp = (Dp0 - 3) % WORD_MOD
           /\ cpu.sp = (last.pre.sp - 3) % WORD_MOD
           /\ WordAt(cpu.memory, cpu.sp) = (last.pre.pc + last.instruction.length) % WORD_MOD
           /\ cpu.pc = TopX
    /\ LastTwo("Call", "Ret") =>
           /\ cpu.pc = (Previous.pre.pc + Previous.instruction.length) % WORD_MOD
           /\ cpu.sp = Previous.pre.sp

\* C14 witness: Call at pc = 0xfffffd with the two-byte immediate 2048 went
\* to 2048 leaving 0 (pc + 3, wrapped) on the call stack, and Ret came back
\* to 0 with sp at 1024 again
C14_Witness ==
    /\ LastTwo("Call", "Ret")
    /\ Previous.instruction.arg = Some(2048)
    /\ Previous.pre.pc = 16777213 /\ Previous.pre.sp = 1024
    /\ last.pre.pc = 2048 /\ last.pre.sp = 1021
    /\ cpu.pc = 0
    /\ cpu.sp = 1024

\* the memory when the last instruction's own pops and pushes began: its
\* immediate, if it carried one, written at dp
MemAfterArg ==
    IF last.instruction.arg.some
    THEN [o \in (DOMAIN last.mem \ {last.pre.dp, last.pre.dp + 1, last.pre.dp + 2})
                \cup { last.pre.dp + k : k \in { k \in 0..2 :
                                                  to_bytes(last.instruction.arg.val)[k + 1] # 0 } }
              |-> IF o \in {last.pre.dp, last.pre.dp + 1, last.pre.dp + 2}
                  THEN to_bytes(last.instruction.arg.val)[(o - last.pre.dp) + 1]
                  ELSE last.mem[o]]
    ELSE last.mem

\* what Storew and Store do on their own: the bytes written and dp
StoresWrite ==
    /\ (last.op = "execute" /\ last.instruction.opcode = "Storew") =>
           /\ cpu.dp = (Dp0 - 6) % WORD_MOD
           /\ << MemGet(cpu.memory, TopX), MemGet(cpu.memory, TopX + 1),
                 MemGet(cpu.memory, TopX + 2) >>
                  = << BelowY % 256, (BelowY \div 256) % 256, BelowY \div 65536 >>
           /\ \A o \in (DOMAIN cpu.memory \cup DOMAIN MemAfterArg)
                         \ {TopX, TopX + 1, TopX + 2} :
                  MemGet(cpu.memory, o) = MemGet(MemAfterArg, o)
    /\ (last.op = "execute" /\ last.instruction.opcode = "Store") =>
           /\ cpu.dp = (Dp0 - 6) % WORD_MOD
           /\ MemGet(cpu.memory, TopX) = BelowY % 256
           /\ \A o \in (DOMAIN cpu.memory \cup DOMAIN MemAfterArg) \ {TopX} :
                  MemGet(cpu.memory, o) = MemGet(MemAfterArg, o)

\* the address of the last Loadw, once pushed (as the instruction's
\* immediate, at the dp before it), lies over a byte the Storew before it
\* wrote
AddressPushedOverStore ==
    /\ last.instruction.arg.some
    /\ {last.pre.dp, last.pre.dp + 1, last.pre.dp + 2}
           \cap {TopX, TopX + 1, TopX + 2} # {}

\* C15 as stated: Storew with address x on top and value y below it writes
\* the three bytes of y little-endian at x, x+1, x+2 and pushes nothing; a
\* following Loadw of the same address pushes y; Store writes only the low
\* byte of y at x and leaves the bytes at x+1 and x+2 unchanged.
C15_StorewThenLoadw ==
    /\ StoresWrite
    /\ (LastTwo("Storew", "Loadw")
          /\ TopX = (IF Previous.instruction.arg.some THEN Previous.instruction.arg.val
                     ELSE WordAt(Previous.mem, Previous.pre.dp - 3))) =>
           Pushed = (IF Previous.instruction.arg.some
                     THEN WordAt(Previous.mem, Previous.pre.dp - 3)
                     ELSE WordAt(Previous.mem, Previous.pre.dp - 6))

\* C15 amended: Storew with address x on top and value y below it writes
\* the three bytes of y little-endian at x, x+1, x+2 and pushes nothing; a
\* following Loadw of the same address pushes y unless pushing that address
\* onto the data stack overwrote one of the bytes x, x+1, x+2 (the stack
\* lives in the same memory); Store writes only the low byte of y at x and
\* leaves the bytes at x+1 and x+2 unchanged.
C15_StorewThenLoadwApart ==
    /\ StoresWrite
    /\ (LastTwo("Storew", "Loadw")
          /\ TopX = (IF Previous.instruction.arg.some THEN Previous.instruction.arg.val
                     ELSE WordAt(Previous.mem, Previous.pre.dp - 3))
          /\ ~AddressPushedOverStore) =>
           Pushed = (IF Previous.instruction.arg.some
                     THEN WordAt(Previous.mem, Previous.pre.dp - 3)
                     ELSE WordAt(Previous.mem, Previous.pre.dp - 6))

\* C15 witness: 0x112233 pushed, Storew with the immediate 2048 wrote
\* 33 22 11 at 2048..2050, and Loadw with the immediate 2048 pushed 0x112233
C15_Witness ==
    /\ LastTwo("Storew", "Loadw")
    /\ Previous.instruction.arg = Some(2048)
    /\ last.instruction.arg = Some(2048)
    /\ << MemGet(cpu.memory, 2048), MemGet(cpu.memory, 2049), MemGet(cpu.memory, 2050) >>
           = << 51, 34, 17 >>
    /\ Pushed = 1122867
    /\ cpu.dp = 259

\* C16 as stated: Setsdp pops x (the top of the data stack) and y (the
\* word below it), sets sp to x and dp to y, and pushes nothing.
C16_SetsdpSpFromTop ==
    (last.op = "execute" /\ last.instruction.opcode = "Setsdp") =>
        /\ cpu.sp = TopX
        /\ cpu.dp = BelowY
        /\ cpu.memory = MemAfterArg

\* C16 amended: Setsdp pops x (the top of the data stack) and y (the word
\* below it), sets dp to x and sp to y, and pushes nothing.
C16_SetsdpDpFromTop ==
    (last.op = "execute" /\ last.instruction.opcode = "Setsdp") =>
        /\ cpu.dp = TopX
        /\ cpu.sp = BelowY
        /\ cpu.memory = MemAfterArg

\* C16 witness: Setsdp with 5 below 0xfffffd on the stack left
\* dp = 0xfffffd and sp = 5
C16_Witness ==
    /\ last.op = "execute"
    /\ last.instruction = [opcode |-> "Setsdp", arg |-> None, length |-> 1]
    /\ TopX = 16777213 /\ BelowY = 5
    /\ cpu.dp = 16777213
    /\ cpu.sp = 5

\* C17: Sdp pushes two words onto the data stack, first sp and then a dp
\* value that equals the dp register after both pushes have completed (the
\* dp before the instruction's pushes plus 6); sp is not changed.
C17_SdpPushesSpThenDp ==
    (last.op = "execute" /\ last.instruction.opcode = "Sdp") =>
        /\ cpu.sp = last.pre.sp
        /\ cpu.dp = (Dp0 + 6) % WORD_MOD
        /\ ~last.instruction.arg.some => cpu.dp = (last.pre.dp + 6) % WORD_MOD
        /\ WordAt(cpu.memory, cpu.dp - 6) = last.pre.sp
        /\ WordAt(cpu.memory, cpu.dp - 3) = cpu.dp
        /\ \A o \in (DOMAIN cpu.memory \cup DOMAIN MemAfterArg)
                      \ { (Dp0 + k) % WORD_MOD : k \in 0..5 } :
               MemGet(cpu.memory, o) = MemGet(MemAfterArg, o)

\* C17 witness: after one push onto each stack (dp = 259, sp = 1021) Sdp
\* pushed 1021 and then 265, and dp is 265
C17_Witness ==
    /\ last.op = "execute"
    /\ last.instruction = [opcode |-> "Sdp", arg |-> None, length |-> 1]
    /\ last.pre.dp = 259 /\ last.pre.sp = 1021
    /\ cpu.sp = 1021
    /\ cpu.dp = 265
    /\ WordAt(cpu.memory, 259) = 1021
    /\ WordAt(cpu.memory, 262) = 265

\* C18: executing Div or Mod with divisor x = 0 does not crash the host:
\* execute completes with a deterministic outcome for every dividend y.
C18_DivideByZeroCompletes ==
    (last.op \in {"execute", "panic"}
       /\ (last.op = "panic" => last.in = "execute")
       /\ last.instruction.opcode \in {"Div", "Mod"}
       /\ TopX = 0) =>
        /\ last.op = "execute"
        /\ cpu.dp = (Dp0 - 3) % WORD_MOD

\* the bytes 05 08 05 0C 1D lie at 1024
S1Loaded ==
    << MemGet(cpu.memory, 1024), MemGet(cpu.memory, 1025), MemGet(cpu.memory, 1026),
       MemGet(cpu.memory, 1027), MemGet(cpu.memory, 1028) >> = << 5, 8, 5, 12, 29 >>

\* the state scenario S1 ends in: data stack [20], halted, pc = 1028
S1Goal ==
    /\ get_stack(cpu).val = << 20 >>
    /\ cpu.halted
    /\ cpu.pc = 1028

\* C19 as stated: scenario S1.  From reset registers with 05 08 05 0C 1D at
\* 1024, running fetch/execute steps from pc = 1024, the machine reaches a
\* state with data stack (the words in [256, dp)) equal to [20],
\* halted = true and pc = 1028: when the run comes to pc = 1028 the data
\* stack is [20] and halted is true.
C19_S1StackAtHalt ==
    (S1Loaded /\ last.op = "execute" /\ cpu.pc = 1028) =>
        /\ get_stack(cpu).val = << 20 >>
        /\ cpu.halted

\* C19 amended: from reset registers with 05 08 05 0C 1D at 1024, running
\* fetch/execute steps from pc = 1024, the machine comes to pc = 1028 after
\* two instructions (05 decodes as Add with a one-byte immediate) with an
\* empty data stack (dp = 256), the sum 20 in the word at 253 below the
\* stack, and halted = true as CPU::new left it; the byte 1D then decodes
\* as And with a one-byte immediate, not Hlt, and no state with data stack
\* [20] at pc = 1028 is reached.
C19_S1SumBelowStack ==
    S1Loaded =>
        /\ (last.op = "fetch" /\ n.exec < 2) =>
               last.result.instruction = [opcode |-> "Add", arg |-> Some(IF n.exec = 0 THEN 8 ELSE 12),
                                          length |-> 2]
        /\ (last.op = "execute" /\ n.exec = 2) =>
               /\ cpu.pc = 1028
               /\ cpu.dp = 256
               /\ get_stack(cpu).val = << >>
               /\ WordAt(cpu.memory, 253) = 20
               /\ cpu.halted
        /\ (last.op = "fetch" /\ n.exec = 2) =>
               last.result.instruction = [opcode |-> "And", arg |-> Some(0), length |-> 2]
        /\ (cpu.pc = 1028) <=> (n.exec = 2)
        /\ ~S1Goal

\* C19 witness: two instructions of 05 08 05 0C 1D executed, pc = 1028,
\* dp = 256 and the word at 253 is 20
C19_Witness ==
    /\ S1Loaded
    /\ last.op = "execute"
    /\ n.exec = 2
    /\ cpu.pc = 1028
    /\ cpu.dp = 256
    /\ WordAt(cpu.memory, 253) = 20
    /\ cpu.halted

\* C20: word conversions round-trip.  For every u in [0, 2^24),
\* from_bytes(to_bytes(Word(u))) = Word(u), to_bytes little-endian; for
\* every i in [-2^23, 2^23), converting i to a Word and back to a signed
\* host integer yields i, a Word with bit 23 set reading as its value minus
\* 2^24.
C20_WordRoundTrips ==
    /\ (last.op = "to_from_bytes" /\ last.u >= 0 /\ last.u < 16777216) =>
           /\ last.word = last.u
           /\ \A k \in 1..3 : last.bytes[k] \in 0..255
           /\ last.u = last.bytes[1] + 256 * last.bytes[2] + 65536 * last.bytes[3]
           /\ last.back = last.word
    /\ (last.op = "to_from_i32" /\ last.i >= -8388608 /\ last.i < 8388608) =>
           /\ last.word \in 0..16777215
           /\ last.back = last.i
           /\ last.back = (IF Bit(last.word, 23) = 1 THEN last.word - 16777216 ELSE last.word)

\* C20 witness: -555 became the Word 0xfffdd5, bit 23 set, and read back
\* as -555
C20_Witness ==
    /\ last.op = "to_from_i32"
    /\ last.i = -555
    /\ last.word = 16776661
    /\ Bit(last.word, 23) = 1
    /\ last.back = -555

\* the signed product of a Word and a host integer modulo 2^24: the
\* shift-and-add product of the residues
ResidueProduct(a, k) == ShiftAddProduct(a, k % 16777216, 0)

\* the sum, the difference and the product on record are those of a and
\* k reduced modulo 2^24
ModularResults ==
    /\ last.add = (last.a + last.k) % 16777216
    /\ last.sub = (last.a - last.k) % 16777216
    /\ last.mul = ResidueProduct(last.a, last.k)

\* the part of C21 the operators keep: with a Word or an i32 on the right
\* the results are the sum, the difference and the product modulo 2^24
WordAndI32Modular ==
    /\ last.op = "word_ops" =>
           /\ last.add = (last.a + last.b) % 16777216
           /\ last.sub = (last.a - last.b) % 16777216
           /\ last.mul = ShiftAddProduct(last.a, last.b, 0)
    /\ last.op = "word_ops_i32" => ModularResults

\* C21: Word arithmetic is arithmetic modulo 2^24.  For all Words a and b,
\* a + b, a - b and a * b are (a+b), (a-b) and (a*b) reduced modulo 2^24
\* with wraparound (0xfffffa + 10 = 4, 3 - 10 = 0xfffff9), with a Word and
\* with a signed host integer (an i8, an i16 or an i32) on the right.
C21_ModularArithmetic ==
    /\ WordAndI32Modular
    /\ last.op = "word_ops_signed" => ModularResults

\* where C21 fails: 0x100 + 1 with the 1 an i8 is 1, the word cut to its
\* low byte before the addition
NarrowOperandTruncates ==
    /\ last.op = "word_ops_signed"
    /\ last.bits = 8
    /\ last.a = 256
    /\ last.k = 1
    /\ last.add = 1

\* the results of the last operators that returned
OperatorResults ==
    IF last.op = "word_ops"
    THEN {last.add, last.sub, last.mul, last.and, last.or, last.xor, last.neg}
         \cup { r.val : r \in { q \in {last.div, last.rem, last.shl, last.shr} : ~q.panic } }
    ELSE IF last.op \in {"word_ops_i32", "word_ops_signed"}
    THEN {last.add, last.sub, last.mul}
    ELSE IF last.op = "word_from"
    THEN {last.from_u32, last.from_i32, last.from_u8, last.from_bool, last.from_bytes}
    ELSE {}

\* C22: every Word produced by a constructor, a conversion or an operator
\* (from u32 / i32 / u8 / bool / bytes, add, sub, mul, div, rem, and, or,
\* xor, shl, shr, neg) lies in [0, 2^24).
C22_WordsAre24Bits == \A w \in OperatorResults : w \in 0..16777215

\* C22 witness: the operators applied to 0xffffff and 1, the sum wrapped to
\* 0, the negation 1, the shift left by one 0xfffffe
C22_Witness ==
    /\ last.op = "word_ops"
    /\ last.a = 16777215
    /\ last.b = 1
    /\ last.add = 0
    /\ last.neg = 1
    /\ ~last.shl.panic /\ last.shl.val = 16777214
    /\ ~last.div.panic /\ last.div.val = 16777215

\* C23: Gt and Lt compare y and x as unsigned 24-bit values, Agt and Alt as
\* 24-bit two's-complement values; each pushes exactly 1 when y > x (Gt,
\* Agt) or y < x (Lt, Alt) holds and 0 otherwise: for y = 5 and
\* x = 0xFFFFFD Gt pushes 0 and Agt pushes 1.
C23_Comparisons ==
    (last.op = "execute" /\ last.instruction.opcode \in {"Gt", "Lt", "Agt", "Alt"}) =>
        LET op == last.instruction.opcode
            x == TopX
            y == BelowY
        IN  /\ Pushed \in {0, 1}
            /\ cpu.dp = (Dp0 - 3) % WORD_MOD
            /\ op = "Gt" => (Pushed = 1 <=> y > x)
            /\ op = "Lt" => (Pushed = 1 <=> y < x)
            /\ op = "Agt" => (Pushed = 1 <=> Signed(y) > Signed(x))
            /\ op = "Alt" => (Pushed = 1 <=> Signed(y) < Signed(x))

\* C23 witness: Agt with y = 5 and x = 0xFFFFFD (-3) pushed 1
C23_Witness ==
    /\ last.op = "execute"
    /\ last.instruction = [opcode |-> "Agt", arg |-> None, length |-> 1]
    /\ TopX = 16777213 /\ BelowY = 5
    /\ Pushed = 1
    /\ cpu.dp = 259

\* the floor of v / 2^k for an integer v of either sign
FloorShift(v, k) == (v - (v % (2 ^ k))) \div (2 ^ k)

\* the last instruction with another opcode in its place
LastAs(opcode) == [last.instruction EXCEPT !.opcode = opcode]

\* C24: Arshift with value y and shift x.  When bit 23 of y is set the
\* result is y shifted right min(x, 24) times with bit 23 set again after
\* every one-bit shift, which is the floor of the signed value over
\* 2^min(x, 24) (0x800010 by 2 gives 0xE00004, any x >= 24 gives 0xFFFFFF);
\* when bit 23 of y is clear the instruction does what Rshift of y by x
\* does, for every x in [0, 2^24).
C24_Arshift ==
    (last.op \in {"execute", "panic"}
       /\ (last.op = "panic" => last.in = "execute")
       /\ last.instruction.opcode = "Arshift") =>
        LET x == TopX
            y == BelowY
            k == IF x < 24 THEN x ELSE 24
            rshift == execute(PreCPU, LastAs("Rshift"), last.oc)
        IN  /\ Bit(y, 23) = 1 =>
                /\ last.op = "execute"
                /\ cpu.dp = (Dp0 - 3) % WORD_MOD
                /\ Pushed = FloorShift(Signed(y), k) % WORD_MOD
                /\ \A i \in 0..23 :
                       Bit(Pushed, i) = IF i + k >= 24 THEN 1 ELSE Bit(y, i + k)
                /\ x >= 24 => Pushed = 16777215
            /\ Bit(y, 23) = 0 =>
                /\ rshift.c.panic <=> last.op = "panic"
                /\ last.op = "execute" =>
                       /\ cpu.memory = rshift.c.memory
                       /\ cpu.dp = rshift.c.dp
                       /\ last.new_pc = rshift.pc

\* C24 witness: Arshift of 0x800010 by the immediate 2 pushed 0xE00004
C24_Witness ==
    /\ last.op = "execute"
    /\ last.instruction = [opcode |-> "Arshift", arg |-> Some(2), length |-> 2]
    /\ BelowY = 8388624
    /\ Pushed = 14680068
    /\ cpu.dp = 259

\* C25: Lshift and Rshift are total over shift amounts.  For every y and
\* every x in [0, 2^24) the instruction completes without crashing the host
\* and pushes a 24-bit value; for 0 <= x < 24 Lshift pushes (y * 2^x) mod
\* 2^24 (bit i of the result is bit i - x of y) and Rshift pushes
\* floor(y / 2^x).
C25_ShiftsAreTotal ==
    (last.op \in {"execute", "panic"}
       /\ (last.op = "panic" => last.in = "execute")
       /\ last.instruction.opcode \in {"Lshift", "Rshift"}) =>
        LET x == TopX
            y == BelowY
        IN  /\ last.op = "execute"
            /\ Pushed \in 0..16777215
            /\ cpu.dp = (Dp0 - 3) % WORD_MOD
            /\ (x < 24 /\ last.instruction.opcode = "Lshift") =>
                   \A i \in 0..23 : Bit(Pushed, i) = IF i >= x THEN Bit(y, i - x) ELSE 0
            /\ (x < 24 /\ last.instruction.opcode = "Rshift") =>
                   Pushed = FloorShift(y, x)

\* a frame was drawn by the last call
Drawn == last.op = "draw"

\* the address of the byte of the logical pixel or cell (lcol, lrow):
\* screen + ((lrow + row_offset mod height) * width)
\*        + ((lcol + col_offset) mod width)
LogicalAddress(reg, lcol, lrow) ==
    (reg.screen + ((lrow + (reg.row_offset % reg.height)) * reg.width)
        + ((lcol + reg.col_offset) % reg.width)) % 16777216

\* the byte of the machine's memory at an address
ByteAt(a) == MemGet(cpu.memory, a % 16777216)

\* the frame bytes of a pixel of colour byte c: R = (c >> 5) << 5,
\* G = ((c >> 2) & 7) << 5, B = ((c & 3) << 1) << 5, A = 0xFF
Expand(c) == << (c \div 32) * 32, ((c \div 4) % 8) * 32, ((c % 4) * 2) * 32, 255 >>

\* C26: in the text modes the pixel at (row, col) samples the character
\* cell at logical (col/8, row/8) in high-res and (col/16, row/16) in
\* low-res, and the glyph row and column (row%8, col%8) in high-res and
\* ((row/2)%8, (col/2)%8) in low-res, so all pixels of one 8x8 (16x16)
\* block read the same character byte: the pixel is the one the mode's
\* loop body writes for that cell and that glyph position.
C26_TextCells ==
    (Drawn /\ ~mode_gfx(last.reg)) =>
        \A i \in SamplePixels :
            LET row == i \div 640
                col == i % 640
                high == mode_highres(last.reg)
                cell_row == IF high THEN row \div 8 ELSE row \div 16
                cell_col == IF high THEN col \div 8 ELSE col \div 16
                glyph_row == IF high THEN row % 8 ELSE (row \div 2) % 8
                glyph_col == IF high THEN col % 8 ELSE (col \div 2) % 8
            IN  last.frame[i] =
                    (IF mode_paletted(last.reg)
                     THEN paletted_text_pixel(cpu, last.reg, cell_row, cell_col,
                                              glyph_row, glyph_col)
                     ELSE direct_text_pixel(cpu, last.reg, cell_row, cell_col,
                                            glyph_row, glyph_col)).px

\* C27: in every text mode (paletted or direct, high-res or low-res) the
\* colour byte of a cell is read at the cell's character address plus
\* width * height; its low nibble is the foreground palette index, used
\* for set glyph bits, and its high nibble the background palette index,
\* used for clear glyph bits.  The cell and the glyph position are the ones
\* the rasterizer samples.
C27_TextColours ==
    (Drawn /\ ~mode_gfx(last.reg)) =>
        \A i \in SamplePixels :
            LET row == i \div 640
                col == i % 640
                reg == last.reg
                high == mode_highres(reg)
                glyph_row == IF high THEN row % 8 ELSE (row \div 2) % 8
                glyph_col == IF high THEN col % 8 ELSE (col \div 2) % 8
                addr == LogicalAddress(reg, col \div 4, row \div 4)
                glyph == ByteAt(reg.font + (ByteAt(addr) * 8) + glyph_row)
                colour == ByteAt(addr + (reg.width * reg.height))
                fg == ByteAt(reg.palette + (colour % 16))
                bg == ByteAt(reg.palette + (colour \div 16))
            IN  last.frame[i] =
                    (IF Bit(glyph, 7 - glyph_col) = 1 THEN Expand(fg) ELSE Expand(bg))

\* C28: in all eight display modes every frame pixel written from a colour
\* byte c gets R = (c >> 5) << 5, G = ((c >> 2) & 7) << 5,
\* B = ((c & 3) << 1) << 5, and every pixel of the frame gets alpha 0xFF,
\* for every c in 0..255.
C28_ColourExpansion ==
    Drawn =>
        \A i \in SamplePixels :
            /\ Len(last.frame[i]) = 4
            /\ last.frame[i][4] = 255
            /\ last.from[i] \in -1..255
            /\ last.from[i] >= 0 => last.frame[i] = Expand(last.from[i])

\* C28 witness: a frame of direct high-res graphics whose pixel (0, 252)
\* was written from the byte 0xFF (224, 224, 192) and whose pixel (0, 128)
\* from the byte 0xE0 (224, 0, 0)
C28_Witness ==
    /\ Drawn
    /\ last.reg.mode = 3
    /\ last.from[252] = 255
    /\ last.frame[252] = << 224, 224, 192, 255 >>
    /\ last.from[128] = 224
    /\ last.frame[128] = << 224, 0, 0, 255 >>

\* C29: in high-res direct graphics (mode byte 3) the pixel at (row, col)
\* shows the byte at logical (col/4, row/4), every logical pixel a 4x4
\* block: with the default registers and the byte 0xE0 at screen + 0 the
\* pixels (0,0) .. (0,3) are R = 0xE0, G = 0, B = 0, A = 0xFF; in the
\* paletted variant the byte is first looked up at palette + byte.
C29_HighResGraphics ==
    (Drawn /\ mode_gfx(last.reg) /\ mode_highres(last.reg)) =>
        /\ \A i \in SamplePixels :
               LET byte == ByteAt(LogicalAddress(last.reg, (i % 640) \div 4, (i \div 640) \div 4))
               IN  last.frame[i] =
                       (IF mode_paletted(last.reg)
                        THEN Expand(ByteAt(last.reg.palette + byte))
                        ELSE Expand(byte))
        /\ ( /\ last.reg = [DisplayRegistersDefault EXCEPT !.mode = 3]
             /\ ByteAt(last.reg.screen) = 224 ) =>
               \A i \in 0..3 : last.frame[i] = << 224, 0, 0, 255 >>

\* the pixel lies in the centred window of 2 * half pixels a side
InWindow(i, half) ==
    /\ i \div 640 >= 240 - half /\ i \div 640 < 240 + half
    /\ i % 640 >= 320 - half /\ i % 640 < 320 + half

\* the frame shows, in a low-res graphics mode, the image in the centred
\* window of 2 * half pixels a side and black around it: a pixel at offset
\* (dr, dc) from the window's origin shows the byte at logical
\* (dc / 3, dr / 3), through the palette's lookup in the paletted mode
LowGfxWindow(half) ==
    \A i \in SamplePixels :
        LET dr == (i \div 640) - (240 - half)
            dc == (i % 640) - (320 - half)
        IN  IF InWindow(i, half)
            THEN last.frame[i] =
                     (IF mode_paletted(last.reg)
                      THEN paletted_gfx_pixel(cpu, last.reg, dr \div 3, dc \div 3).px
                      ELSE Expand(ByteAt(LogicalAddress(last.reg, dc \div 3, dr \div 3))))
            ELSE last.frame[i] = << 0, 0, 0, 255 >>

\* C30 as stated: in both low-res graphics modes the image occupies a
\* centred 192x192-pixel window of the 640x480 frame: every pixel outside
\* it is black (R = G = B = 0, A = 0xFF), and a pixel inside it at offset
\* (dr, dc) from the window origin shows the byte at logical (dc/3, dr/3).
C30_LowGfxWindow192 ==
    (Drawn /\ mode_gfx(last.reg) /\ ~mode_highres(last.reg)) => LowGfxWindow(96)

\* C30 amended: the window is 384x384 pixels (rows 48..431, columns
\* 128..511), 128x128 logical pixels of 3x3; outside it the frame is
\* black, inside it the pixel at offset (dr, dc) shows the byte at logical
\* (dc/3, dr/3).
C30_LowGfxWindow384 ==
    (Drawn /\ mode_gfx(last.reg) /\ ~mode_highres(last.reg)) => LowGfxWindow(192)

\* C30 witness: a frame of direct low-res graphics with the default
\* registers: the pixel (48, 131) shows the byte 1 of logical (1, 0), the
\* pixel (431, 511) the byte 0xFF of logical (127, 127), and the pixels
\* (47, 128) and (432, 512) next to the window are black
C30_Witness ==
    /\ Drawn
    /\ last.reg = [DisplayRegistersDefault EXCEPT !.mode = 1]
    /\ ByteAt(65537) = 1 /\ ByteAt(65536 + 16383) = 255
    /\ last.frame[640 * 48 + 131] = << 0, 0, 64, 255 >>
    /\ last.frame[640 * 431 + 511] = << 224, 224, 192, 255 >>
    /\ last.frame[640 * 47 + 128] = << 0, 0, 0, 255 >>
    /\ last.frame[640 * 432 + 512] = << 0, 0, 0, 255 >>

\* the last call was execute of an opcode that carried an immediate
WithImmediate(opcode) ==
    /\ last.op = "execute"
    /\ last.instruction.opcode = opcode
    /\ last.instruction.arg.some

\* C31: when a decoded instruction carries an immediate, execute pushes it
\* onto the data stack before the opcode's own effect: a binary opcode with
\* an immediate uses the immediate as x and the previous top as y, and Nop
\* with an immediate nets exactly one push (dp + 3, the immediate on top).
C31_ImmediatePushedFirst ==
    LET arg == last.instruction.arg.val
        top == WordAt(last.mem, last.pre.dp - 3)
    IN  /\ WithImmediate("Nop") =>
               /\ cpu.dp = (last.pre.dp + 3) % WORD_MOD
               /\ WordAt(cpu.memory, last.pre.dp) = arg
               /\ cpu.memory = MemAfterArg
        /\ WithImmediate("Sub") =>
               /\ cpu.dp = last.pre.dp
               /\ Pushed = (top - arg) % WORD_MOD
        /\ WithImmediate("Gt") =>
               /\ cpu.dp = last.pre.dp
               /\ Pushed = (IF top > arg THEN 1 ELSE 0)
        /\ WithImmediate("Lt") =>
               /\ cpu.dp = last.pre.dp
               /\ Pushed = (IF top < arg THEN 1 ELSE 0)
        /\ WithImmediate("Swap") =>
               /\ cpu.dp = (last.pre.dp + 3) % WORD_MOD
               /\ WordAt(cpu.memory, last.pre.dp - 3) = arg
               /\ WordAt(cpu.memory, last.pre.dp) = top
        /\ WithImmediate("Setsdp") =>
               /\ cpu.dp = arg
               /\ cpu.sp = top
        /\ (last.op = "execute" /\ last.instruction.arg.some) =>
               LET r == execute(push_data(PreCPU, arg),
                                [last.instruction EXCEPT !.arg = None], last.oc)
               IN  /\ ~r.c.panic
                   /\ cpu = [r.c EXCEPT !.pc = r.pc]

\* C31 witness: Sub with the immediate 2 executed over a stack whose top
\* was 5 left 5 - 2 = 3 in its place
C31_Witness ==
    /\ WithImmediate("Sub")
    /\ last.instruction.arg.val = 2
    /\ last.pre.dp = 259
    /\ WordAt(last.mem, 256) = 5
    /\ cpu.dp = 259
    /\ Pushed = 3

\* C32: Pick pops the index and pushes a copy of the word that many
\* positions below the top of the stack that remains after the pop (index 0
\* copies that top); the words already on the stack are unchanged and dp ends
\* where it was before the instruction's pop, e.g. [10, 20, 30, 2] becomes
\* [10, 20, 30, 10].
C32_Pick ==
    (last.op = "execute" /\ last.instruction.opcode = "Pick") =>
        /\ cpu.dp = Dp0
        /\ cpu.sp = last.pre.sp
        /\ Pushed = WordAt(MemAfterArg, (Dp0 - 6) - 3 * TopX)
        /\ \A o \in (DOMAIN cpu.memory \cup DOMAIN MemAfterArg)
                      \ { (Dp0 - k) % WORD_MOD : k \in 1..3 } :
               MemGet(cpu.memory, o) = MemGet(MemAfterArg, o)

\* C32 witness: Pick with the immediate 2 over the stack [5, 0, 0xfffffd]
\* left [5, 0, 0xfffffd, 5]
C32_Witness ==
    /\ WithImmediate("Pick")
    /\ last.instruction.arg.val = 2
    /\ last.pre.dp = 265
    /\ cpu.dp = 268
    /\ get_stack(cpu).val = << 5, 0, 16777213, 5 >>

\* the byte values a source yields (its draws repeat after 256 of them)
Yields(rng) == { gen(rng, i) : i \in 0 .. 255 }

\* C33: a Memory created from a caller-supplied byte source has each of its
\* 131,072 bytes, offsets 0 through 131,071, filled with a value drawn from
\* that source; a Memory created by default has every byte zero.
C33_MemoryFilled ==
    /\ last.op = "from" =>
           LET drawn == Yields(last.rng)
           IN  \A o \in 0 .. MEM_SIZE - 1 : MemGet(cpu.memory, o) \in drawn
    /\ last.op = "default" =>
           \A o \in 0 .. MEM_SIZE - 1 : MemGet(cpu.memory, o) = 0

\* the registers among dp, sp, iv, int_enabled and halted that the last
\* call was free to change are the only ones it changed
ChangedOnly(fields) ==
    \A f \in {"dp", "sp", "iv", "int_enabled", "halted"} \ fields :
        regs(cpu)[f] = last.pre[f]

\* C34: Nop, Rand and Debug executed without an immediate change no
\* architectural state other than the next pc: dp, sp, iv, int_enabled,
\* halted and every memory byte are unchanged; Inton and Intoff change only
\* int_enabled, Hlt changes only halted (to true), and Setiv changes only iv
\* and dp.
C34_FrameEffects ==
    (last.op = "execute" /\ ~last.instruction.arg.some) =>
        LET op == last.instruction.opcode
        IN  /\ op \in {"Nop", "Rand", "Debug", "Inton", "Intoff", "Hlt", "Setiv"} =>
                   /\ cpu.memory = last.mem
                   /\ cpu.pc = (last.pre.pc + 1) % WORD_MOD
            /\ op \in {"Nop", "Rand", "Debug"} => ChangedOnly({})
            /\ op = "Inton" => ChangedOnly({"int_enabled"}) /\ cpu.int_enabled
            /\ op = "Intoff" => ChangedOnly({"int_enabled"}) /\ ~cpu.int_enabled
            /\ op = "Hlt" =>
                   /\ ChangedOnly({"halted"}) /\ cpu.halted
                   /\ execute([PreCPU EXCEPT !.halted = FALSE], last.instruction, TRUE).c
                          = [PreCPU EXCEPT !.halted = TRUE]
            /\ op = "Setiv" =>
                   /\ ChangedOnly({"iv", "dp"})
                   /\ cpu.dp = (last.pre.dp - 3) % WORD_MOD
                   /\ cpu.iv = WordAt(last.mem, last.pre.dp - 3)

\* C34 witness: Intoff executed after a push and Inton turned int_enabled
\* off again and left the word on the stack
C34_Witness ==
    /\ LastTwo("Inton", "Intoff")
    /\ last.pre.int_enabled /\ ~cpu.int_enabled
    /\ last.pre.dp = 259 /\ cpu.dp = 259
    /\ get_stack(cpu).val = << 1122867 >>
    /\ cpu.pc = 1026

\* C35: no operation of the CPU ever sets halted to false: over any
\* sequence of new, reset, fetch and execute calls halted is true in every
\* reachable state (the Running state is never entered), and an instruction
\* handed to execute on a machine that were running would leave it running
\* unless it is Hlt.
C35_NeverRunning ==
    /\ cpu.halted
    /\ last.op = "execute" =>
           LET r == execute([PreCPU EXCEPT !.halted = FALSE], last.instruction, last.oc)
           IN  /\ ~r.c.panic
               /\ r.c.halted = (last.instruction.opcode = "Hlt")

\* C35 witness: two instructions fetched and executed from 1024 on, pc
\* moved, the machine still halted
C35_Witness ==
    /\ last.op = "execute"
    /\ n.ops = 4 /\ n.exec = 2 /\ n.reset = 0
    /\ last.pre.pc # 1024 /\ cpu.pc # 1024
    /\ cpu.int_enabled
    /\ cpu.halted

\* the two stack regions [256, dp) and [sp, 1024) of a register file do
\* not overlap and lie inside memory
Apart(r) == r.dp <= r.sp /\ r.sp < MEM_SIZE

\* the last call worked on the call stack
CallSide ==
    \/ last.op \in {"push_call", "pop_call"}
    \/ last.op = "execute" /\ last.instruction.opcode \in {"Pushr", "Call", "Ret"}

\* C36 as stated: the two stacks are independent while their regions do
\* not overlap (dp <= sp, both inside memory, when the call is made):
\* push_call, pop_call, Pushr's call-side write, Call and Ret never change
\* any byte in [256, dp) and push_data and pop_data never change sp or any
\* byte in [sp, 1024); Pushr followed by Popr restores dp, sp and the data
\* stack contents.
C36_StacksIndependent ==
    /\ (CallSide /\ Apart(last.pre)) =>
           \A o \in 256 .. cpu.dp - 1 : MemGet(cpu.memory, o) = MemGet(last.mem, o)
    /\ (last.op \in {"push_data", "pop_data"} /\ Apart(last.pre)) =>
           /\ cpu.sp = last.pre.sp
           /\ \A o \in cpu.sp .. 1023 : MemGet(cpu.memory, o) = MemGet(last.mem, o)
    /\ (LastTwo("Pushr", "Popr") /\ Apart(Previous.pre)) =>
           /\ cpu.dp = Previous.pre.dp
           /\ cpu.sp = Previous.pre.sp
           /\ \A o \in 256 .. cpu.dp - 1 :
                  MemGet(cpu.memory, o) = MemGet(Previous.mem, o)

\* C36 amended: the two stacks are independent while their regions do not
\* overlap both before the call and after it (dp <= sp at both times, both
\* inside memory: a push has room for its word): push_call, pop_call,
\* Pushr's call-side write, Call and Ret never change any byte of the data
\* stack the call leaves, [256, dp), and push_data and pop_data never change
\* sp or any byte in [sp, 1024); Pushr followed by Popr restores dp, sp and
\* the data stack contents.
C36_StacksIndependentWithRoom ==
    /\ (CallSide /\ Apart(last.pre) /\ Apart(regs(cpu))) =>
           \A o \in 256 .. cpu.dp - 1 : MemGet(cpu.memory, o) = MemGet(last.mem, o)
    /\ (last.op \in {"push_data", "pop_data"} /\ Apart(last.pre) /\ Apart(regs(cpu))) =>
           /\ cpu.sp = last.pre.sp
           /\ \A o \in cpu.sp .. 1023 : MemGet(cpu.memory, o) = MemGet(last.mem, o)
    /\ (LastTwo("Pushr", "Popr") /\ Apart(Previous.pre) /\ Apart(last.pre)) =>
           /\ cpu.dp = Previous.pre.dp
           /\ cpu.sp = Previous.pre.sp
           /\ \A o \in 256 .. cpu.dp - 1 :
                  MemGet(cpu.memory, o) = MemGet(Previous.mem, o)

\* C36 witness: with sp moved down to 259 and 0x112233 pushed the stacks
\* touch (dp = sp = 259); Pushr and then Popr left dp, sp and the word as
\* they were
C36_Witness ==
    /\ LastTwo("Pushr", "Popr")
    /\ Previous.pre.dp = 259 /\ Previous.pre.sp = 259
    /\ last.pre.dp = 256 /\ last.pre.sp = 256
    /\ cpu.dp = 259 /\ cpu.sp = 259
    /\ get_stack(cpu).val = << 1122867 >>

\* the last call was draw, whether it returned or panicked
DrawCalled == last.op = "draw" \/ (last.op = "panic" /\ last.in = "draw")

\* C37: display draw completes and writes every pixel of the frame for
\* every content of the 22-byte register block at address 16, including
\* width = 0, height = 0 and screen, font or palette bases that place the
\* computed byte address at or beyond the end of memory; it never faults and
\* never writes to the machine's memory.
C37_DrawAlwaysCompletes ==
    DrawCalled =>
        /\ last.op = "draw"
        /\ DOMAIN last.frame = SamplePixels
        /\ \A i \in SamplePixels : last.frame[i][4] = 255
        /\ cpu.memory = last.mem


=============================================================================
